---- MODULE Spec2Model ----
(***************************************************************************)
(* Model of the scaffolding core of src/server.ts: the path guard          *)
(* (resolveSafeTarget), the two materializers (ensureDirectory,            *)
(* ensureFile) and the orchestrator (scaffoldProject), over a model of the *)
(* filesystem calls they make (fs.mkdir recursive, fs.writeFile flag wx).  *)
(*                                                                         *)
(* Strings.  A path string is a sequence of tokens.  A token is "/", "."   *)
(* or a name, a non-empty run of characters other than "/" and "."; no two *)
(* names are adjacent, so a token sequence denotes exactly one string.     *)
(* 'src/app.ts' is <<"src", "/", "app", ".", "ts">>, '..' is <<".", ".">>. *)
(* String operations of the code that look at characters (startsWith,      *)
(* isAbsolute, split on '/') are computed on the tokens.                   *)
(*                                                                         *)
(* node:path is modelled with its POSIX semantics.                         *)
(***************************************************************************)
EXTENDS Integers, Sequences, FiniteSets, TLC

\* ------------------------------------------------------------------------
\* Bounds
\* ------------------------------------------------------------------------
MaxLen == 6       \* longest inputPath (in tokens) given to the path guard
MaxDirs == 2      \* entries of a pattern's directories the model scaffolds
MaxFiles == 2     \* entries of a pattern's files the model scaffolds
MaxFaults == 1    \* filesystem calls that fail for an environmental cause

\* ------------------------------------------------------------------------
\* Strings and node:path (POSIX)
\* ------------------------------------------------------------------------
Slash == "/"
Dot == "."
DotDot == <<".", ".">>
Root == <<"/">>

\* s.startsWith(prefix)
StartsWith(s, prefix) ==
  /\ Len(s) >= Len(prefix)
  /\ SubSeq(s, 1, Len(prefix)) = prefix

\* s.split('/'): the segments between separators, empty ones included
RECURSIVE Split(_)
Split(s) ==
  IF s = <<>> THEN << <<>> >>
  ELSE LET rest == Split(Tail(s)) IN
       IF Head(s) = Slash THEN << <<>> >> \o rest
       ELSE << <<Head(s)>> \o Head(rest) >> \o Tail(rest)

\* segments.join('/')
RECURSIVE JoinSegs(_)
JoinSegs(segs) ==
  IF segs = <<>> THEN <<>>
  ELSE IF Len(segs) = 1 THEN Head(segs)
  ELSE Head(segs) \o <<Slash>> \o JoinSegs(Tail(segs))

\* node:path normalizeString, segment by segment: '' and '.' are dropped,
\* '..' pops the last kept segment (or is kept when above the start of a
\* relative path, or dropped at the root of an absolute one).
RECURSIVE NormalizeSegs(_, _, _)
NormalizeSegs(segs, acc, allowAboveRoot) ==
  IF segs = <<>> THEN acc
  ELSE LET s == Head(segs)
           next ==
             IF s = <<>> \/ s = <<Dot>> THEN acc
             ELSE IF s = DotDot
               THEN IF acc # <<>> /\ acc[Len(acc)] # DotDot
                      THEN SubSeq(acc, 1, Len(acc) - 1)
                    ELSE IF allowAboveRoot THEN Append(acc, DotDot)
                    ELSE acc
             ELSE Append(acc, s)
       IN NormalizeSegs(Tail(segs), next, allowAboveRoot)

\* path.isAbsolute(p)
PathIsAbsolute(p) == p # <<>> /\ p[1] = Slash

\* path.normalize(p)
PathNormalize(p) ==
  IF p = <<>> THEN <<Dot>>
  ELSE LET isAbs == PathIsAbsolute(p)
           trailing == p[Len(p)] = Slash
           body == JoinSegs(NormalizeSegs(Split(p), <<>>, ~isAbs))
           str == IF body = <<>>
                    THEN (IF isAbs THEN <<>> ELSE <<Dot>> \o (IF trailing THEN <<Slash>> ELSE <<>>))
                    ELSE body \o (IF trailing THEN <<Slash>> ELSE <<>>)
       IN IF isAbs THEN <<Slash>> \o str ELSE str

\* path.join(a, b): the non-empty arguments joined by '/', then normalized
PathJoin(a, b) ==
  IF a = <<>> THEN PathNormalize(b)
  ELSE IF b = <<>> THEN PathNormalize(a)
  ELSE PathNormalize(a \o <<Slash>> \o b)

\* path.resolve(base, p) for an absolute base: p replaces base when it is
\* absolute, otherwise it is appended; the result is normalized, absolute
\* and has no trailing separator.
PathResolve(base, p) ==
  LET joined == IF PathIsAbsolute(p) THEN p
                ELSE IF p = <<>> THEN base
                ELSE base \o <<Slash>> \o p
  IN <<Slash>> \o JoinSegs(NormalizeSegs(Split(joined), <<>>, FALSE))

\* the segments of a normalized absolute path ('/' has none)
Segments(p) == NormalizeSegs(Split(p), <<>>, FALSE)

\* how many leading segments two segment lists share
RECURSIVE CommonLen(_, _)
CommonLen(a, b) ==
  IF a = <<>> \/ b = <<>> \/ Head(a) # Head(b) THEN 0
  ELSE 1 + CommonLen(Tail(a), Tail(b))

\* path.relative(from, to) for absolute arguments: one '..' per segment of
\* from below the common ancestor, then the rest of to; '' when equal.
PathRelative(from, to) ==
  LET f == Segments(from)
      t == Segments(to)
      c == CommonLen(f, t)
      ups == [i \in 1..(Len(f) - c) |-> DotDot]
  IN JoinSegs(ups \o SubSeq(t, c + 1, Len(t)))

\* path.dirname(p) of a normalized absolute path
PathDirname(p) ==
  LET segs == Segments(p) IN
  IF Len(segs) <= 1 THEN Root
  ELSE <<Slash>> \o JoinSegs(SubSeq(segs, 1, Len(segs) - 1))

\* ------------------------------------------------------------------------
\* Errors.  Every throw in the code is `new Error(message)`; the model keeps
\* the parts of the message: which throw site built it, the path it names
\* and the message of the underlying cause it embeds.
\* ------------------------------------------------------------------------
NoCause == "none"

\* ------------------------------------------------------------------------
\* resolveSafeTarget (src/server.ts:751), preceded by faulty variants of it
\* against which the properties are tried
\* ------------------------------------------------------------------------
\* Faulty variant: the escape test made on the raw input instead of
\* on the relative path computed after resolution.
resolveSafeTargetRawPrefix(inputPath, baseDir) ==
  LET resolved == PathResolve(baseDir, inputPath)
      relative == PathRelative(baseDir, resolved)
  IN IF StartsWith(inputPath, DotDot) \/ PathIsAbsolute(relative)
       THEN [ok |-> FALSE,
             error |-> [name |-> "Error", site |-> "Security violation",
                        path |-> inputPath, cause |-> "none"]]
       ELSE [ok |-> TRUE, value |-> resolved]

\* Faulty variant: no escape test, whatever resolves is returned.
resolveSafeTargetNoCheck(inputPath, baseDir) ==
  [ok |-> TRUE, value |-> PathResolve(baseDir, inputPath)]

\* Faulty variant: the empty relative path is rejected too (`!relative`),
\* that is, baseDir itself.
resolveSafeTargetRejectsBase(inputPath, baseDir) ==
  LET resolved == PathResolve(baseDir, inputPath)
      relative == PathRelative(baseDir, resolved)
  IN IF relative = <<>> \/ StartsWith(relative, DotDot) \/ PathIsAbsolute(relative)
       THEN [ok |-> FALSE,
             error |-> [name |-> "Error", site |-> "Security violation",
                        path |-> inputPath, cause |-> "none"]]
       ELSE [ok |-> TRUE, value |-> resolved]

\* resolveSafeTarget as written
resolveSafeTarget(inputPath, baseDir) ==
  LET resolved == PathResolve(baseDir, inputPath)
      relative == PathRelative(baseDir, resolved)
  IN IF StartsWith(relative, DotDot) \/ PathIsAbsolute(relative)
       THEN [ok |-> FALSE,
             error |-> [name |-> "Error", site |-> "Security violation",
                        path |-> inputPath, cause |-> NoCause]]
       ELSE [ok |-> TRUE, value |-> resolved]

\* ------------------------------------------------------------------------
\* The pattern catalog (src/server.ts:65-736).  Paths are token sequences.
\* A content short enough to read is the literal of the source; a longer or
\* computed one (JSON.stringify, long templates) is named "<pattern:path>"
\* after the first catalog entry that holds it, so that two entries have
\* equal contents in the model exactly when they have equal source text.
\* ------------------------------------------------------------------------
\* src/server.ts:66  PATTERNS.layered
LayeredDirectories ==
  << <<"public">>,
     <<"src", "/", "components">>,
     <<"src", "/", "hooks">>,
     <<"src", "/", "services">>,
     <<"src", "/", "pages">>,
     <<"src", "/", "store">>,
     <<"src", "/", "styles">>,
     <<"src", "/", "utils">>,
     <<"src", "/", "config">>,
     <<"src", "/", "assets", "/", "images">>,
     <<"src", "/", "assets", "/", "icons">>,
     <<"src", "/", "assets", "/", "fonts">>,
     <<"tests", "/", "unit">>,
     <<"tests", "/", "integration">>,
     <<"tests", "/", "e2e">>,
     <<".", "github", "/", "workflows">> >>

LayeredFiles ==
  << [path |-> <<"src", "/", "components", "/", "index", ".", "ts">>,
      content |-> "export {};\n"],
     [path |-> <<"src", "/", "hooks", "/", "index", ".", "ts">>,
      content |-> "export {};\n"],
     [path |-> <<"src", "/", "services", "/", "index", ".", "ts">>,
      content |-> "// API clients and business logic\nexport {};\n"],
     [path |-> <<"src", "/", "services", "/", "api", ".", "ts">>,
      content |-> "<layered:src/services/api.ts>"],
     [path |-> <<"src", "/", "pages", "/", "index", ".", "ts">>,
      content |-> "export {};\n"],
     [path |-> <<"src", "/", "store", "/", "index", ".", "ts">>,
      content |-> "<layered:src/store/index.ts>"],
     [path |-> <<"src", "/", "styles", "/", "index", ".", "ts">>,
      content |-> "export {};\n"],
     [path |-> <<"src", "/", "utils", "/", "index", ".", "ts">>,
      content |-> "export {};\n"],
     [path |-> <<"src", "/", "config", "/", "index", ".", "ts">>,
      content |-> "<layered:src/config/index.ts>"],
     [path |-> <<"src", "/", "assets", "/", "images", "/", ".", "gitkeep">>,
      content |-> ""],
     [path |-> <<"src", "/", "assets", "/", "icons", "/", ".", "gitkeep">>,
      content |-> ""],
     [path |-> <<"src", "/", "assets", "/", "fonts", "/", ".", "gitkeep">>,
      content |-> ""],
     [path |-> <<"tests", "/", "unit", "/", ".", "gitkeep">>,
      content |-> ""],
     [path |-> <<"tests", "/", "integration", "/", ".", "gitkeep">>,
      content |-> ""],
     [path |-> <<"tests", "/", "e2e", "/", ".", "gitkeep">>,
      content |-> ""],
     [path |-> <<"tests", "/", "setup", ".", "ts">>,
      content |-> "<layered:tests/setup.ts>"],
     [path |-> <<"src", "/", "types", ".", "ts">>,
      content |-> "// Shared app types\nexport type AppType = unknown;\n"],
     [path |-> <<"src", "/", "App", ".", "tsx">>,
      content |-> "<layered:src/App.tsx>"],
     [path |-> <<"src", "/", "main", ".", "tsx">>,
      content |-> "<layered:src/main.tsx>"],
     [path |-> <<"package", ".", "json">>,
      content |-> "<layered:package.json>"],
     [path |-> <<"tsconfig", ".", "json">>,
      content |-> "<layered:tsconfig.json>"],
     [path |-> <<"tsconfig", ".", "node", ".", "json">>,
      content |-> "<layered:tsconfig.node.json>"],
     [path |-> <<"vite", ".", "config", ".", "ts">>,
      content |-> "<layered:vite.config.ts>"],
     [path |-> <<"public", "/", "index", ".", "html">>,
      content |-> "<layered:public/index.html>"],
     [path |-> <<"public", "/", "vite", ".", "svg">>,
      content |-> "<layered:public/vite.svg>"],
     [path |-> <<".", "gitignore">>,
      content |-> "<layered:.gitignore>"],
     [path |-> <<".", "env", ".", "example">>,
      content |-> "<layered:.env.example>"],
     [path |-> <<"Dockerfile">>,
      content |-> "<layered:Dockerfile>"],
     [path |-> <<"nginx", ".", "conf">>,
      content |-> "<layered:nginx.conf>"],
     [path |-> <<".", "github", "/", "workflows", "/", "ci", ".", "yml">>,
      content |-> "<layered:.github/workflows/ci.yml>"],
     [path |-> <<"README", ".", "md">>,
      content |-> "<layered:README.md>"] >>

LayeredLabel == "Layered (Standard)"

\* src/server.ts:251  PATTERNS.feature
FeatureDirectories ==
  << <<"public">>,
     <<"src", "/", "features", "/", "auth", "/", "components">>,
     <<"src", "/", "features", "/", "auth", "/", "hooks">>,
     <<"src", "/", "features", "/", "auth", "/", "api">>,
     <<"src", "/", "features", "/", "dashboard", "/", "components">>,
     <<"src", "/", "features", "/", "dashboard", "/", "hooks">>,
     <<"src", "/", "features", "/", "dashboard", "/", "api">>,
     <<"src", "/", "shared", "/", "components">>,
     <<"src", "/", "shared", "/", "hooks">>,
     <<"src", "/", "shared", "/", "services">>,
     <<"src", "/", "shared", "/", "utils">>,
     <<"src", "/", "shared", "/", "types">>,
     <<"src", "/", "assets", "/", "images">>,
     <<"src", "/", "assets", "/", "icons">>,
     <<"src", "/", "assets", "/", "fonts">> >>

FeatureFiles ==
  << [path |-> <<"src", "/", "assets", "/", "images", "/", ".", "gitkeep">>,
      content |-> ""],
     [path |-> <<"src", "/", "assets", "/", "icons", "/", ".", "gitkeep">>,
      content |-> ""],
     [path |-> <<"src", "/", "assets", "/", "fonts", "/", ".", "gitkeep">>,
      content |-> ""],
     [path |-> <<"src", "/", "features", "/", "auth", "/", "index", ".", "ts">>,
      content |-> "export * from './components';\nexport * from './hooks';\n"],
     [path |-> <<"src", "/", "features", "/", "auth", "/", "components", "/", "index", ".", "ts">>,
      content |-> "export {};\n"],
     [path |-> <<"src", "/", "features", "/", "auth", "/", "hooks", "/", "index", ".", "ts">>,
      content |-> "export {};\n"],
     [path |-> <<"src", "/", "features", "/", "auth", "/", "api", "/", "index", ".", "ts">>,
      content |-> "export {};\n"],
     [path |-> <<"src", "/", "features", "/", "dashboard", "/", "index", ".", "ts">>,
      content |-> "export * from './components';\nexport * from './hooks';\n"],
     [path |-> <<"src", "/", "features", "/", "dashboard", "/", "components", "/", "index", ".", "ts">>,
      content |-> "export {};\n"],
     [path |-> <<"src", "/", "features", "/", "dashboard", "/", "hooks", "/", "index", ".", "ts">>,
      content |-> "export {};\n"],
     [path |-> <<"src", "/", "features", "/", "dashboard", "/", "api", "/", "index", ".", "ts">>,
      content |-> "export {};\n"],
     [path |-> <<"src", "/", "shared", "/", "components", "/", "index", ".", "ts">>,
      content |-> "export {};\n"],
     [path |-> <<"src", "/", "shared", "/", "hooks", "/", "index", ".", "ts">>,
      content |-> "export {};\n"],
     [path |-> <<"src", "/", "shared", "/", "services", "/", "index", ".", "ts">>,
      content |-> "export {};\n"],
     [path |-> <<"src", "/", "shared", "/", "utils", "/", "index", ".", "ts">>,
      content |-> "export {};\n"],
     [path |-> <<"src", "/", "shared", "/", "types", "/", "index", ".", "ts">>,
      content |-> "export type AppType = unknown;\n"],
     [path |-> <<"src", "/", "App", ".", "tsx">>,
      content |-> "<feature:src/App.tsx>"],
     [path |-> <<"src", "/", "main", ".", "tsx">>,
      content |-> "<layered:src/main.tsx>"],
     [path |-> <<"package", ".", "json">>,
      content |-> "<feature:package.json>"],
     [path |-> <<"tsconfig", ".", "json">>,
      content |-> "<feature:tsconfig.json>"],
     [path |-> <<"tsconfig", ".", "node", ".", "json">>,
      content |-> "<layered:tsconfig.node.json>"],
     [path |-> <<"vite", ".", "config", ".", "ts">>,
      content |-> "<feature:vite.config.ts>"],
     [path |-> <<"public", "/", "index", ".", "html">>,
      content |-> "<feature:public/index.html>"],
     [path |-> <<"public", "/", "vite", ".", "svg">>,
      content |-> "<layered:public/vite.svg>"],
     [path |-> <<".", "gitignore">>,
      content |-> "node_modules\ndist\n.env\n.env.local\n*.log\n.DS_Store\n"],
     [path |-> <<"README", ".", "md">>,
      content |-> "<feature:README.md>"] >>

FeatureLabel == "Feature-Based (Modular)"

\* src/server.ts:415  PATTERNS.atomic
AtomicDirectories ==
  << <<"public">>,
     <<"src", "/", "components", "/", "atoms">>,
     <<"src", "/", "components", "/", "molecules">>,
     <<"src", "/", "components", "/", "organisms">>,
     <<"src", "/", "components", "/", "templates">>,
     <<"src", "/", "pages">>,
     <<"src", "/", "styles">>,
     <<"src", "/", "hooks">>,
     <<"src", "/", "services">>,
     <<"src", "/", "utils">>,
     <<"src", "/", "assets", "/", "images">>,
     <<"src", "/", "assets", "/", "icons">>,
     <<"src", "/", "assets", "/", "fonts">> >>

AtomicFiles ==
  << [path |-> <<"src", "/", "assets", "/", "images", "/", ".", "gitkeep">>,
      content |-> ""],
     [path |-> <<"src", "/", "assets", "/", "icons", "/", ".", "gitkeep">>,
      content |-> ""],
     [path |-> <<"src", "/", "assets", "/", "fonts", "/", ".", "gitkeep">>,
      content |-> ""],
     [path |-> <<"src", "/", "components", "/", "atoms", "/", "index", ".", "ts">>,
      content |-> "// Basic building blocks\nexport {};\n"],
     [path |-> <<"src", "/", "components", "/", "molecules", "/", "index", ".", "ts">>,
      content |-> "// Composite of atoms\nexport {};\n"],
     [path |-> <<"src", "/", "components", "/", "organisms", "/", "index", ".", "ts">>,
      content |-> "// Complex UI sections\nexport {};\n"],
     [path |-> <<"src", "/", "components", "/", "templates", "/", "index", ".", "ts">>,
      content |-> "// Page layouts\nexport {};\n"],
     [path |-> <<"src", "/", "pages", "/", "index", ".", "ts">>,
      content |-> "// Page instances\nexport {};\n"],
     [path |-> <<"src", "/", "styles", "/", "index", ".", "ts">>,
      content |-> "export {};\n"],
     [path |-> <<"src", "/", "hooks", "/", "index", ".", "ts">>,
      content |-> "export {};\n"],
     [path |-> <<"src", "/", "services", "/", "index", ".", "ts">>,
      content |-> "export {};\n"],
     [path |-> <<"src", "/", "utils", "/", "index", ".", "ts">>,
      content |-> "export {};\n"],
     [path |-> <<"src", "/", "types", ".", "ts">>,
      content |-> "// Shared app types\nexport type AppType = unknown;\n"],
     [path |-> <<"src", "/", "App", ".", "tsx">>,
      content |-> "<atomic:src/App.tsx>"],
     [path |-> <<"src", "/", "main", ".", "tsx">>,
      content |-> "<atomic:src/main.tsx>"],
     [path |-> <<"package", ".", "json">>,
      content |-> "<atomic:package.json>"],
     [path |-> <<"tsconfig", ".", "json">>,
      content |-> "<layered:tsconfig.json>"],
     [path |-> <<"tsconfig", ".", "node", ".", "json">>,
      content |-> "<layered:tsconfig.node.json>"],
     [path |-> <<"vite", ".", "config", ".", "ts">>,
      content |-> "<atomic:vite.config.ts>"],
     [path |-> <<"public", "/", "index", ".", "html">>,
      content |-> "<atomic:public/index.html>"],
     [path |-> <<"public", "/", "vite", ".", "svg">>,
      content |-> "<layered:public/vite.svg>"],
     [path |-> <<".", "gitignore">>,
      content |-> "<atomic:.gitignore>"],
     [path |-> <<"README", ".", "md">>,
      content |-> "<atomic:README.md>"] >>

AtomicLabel == "Atomic Design"

\* src/server.ts:570  PATTERNS.clean
CleanDirectories ==
  << <<"public">>,
     <<"src", "/", "backend", "/", "entities">>,
     <<"src", "/", "backend", "/", "usecases">>,
     <<"src", "/", "backend", "/", "interfaces">>,
     <<"src", "/", "backend", "/", "repositories">>,
     <<"src", "/", "backend", "/", "services">>,
     <<"src", "/", "backend", "/", "mappers">>,
     <<"src", "/", "frontend", "/", "components">>,
     <<"src", "/", "frontend", "/", "viewmodels">>,
     <<"src", "/", "frontend", "/", "pages">>,
     <<"src", "/", "frontend", "/", "hooks">>,
     <<"src", "/", "shared", "/", "utils">>,
     <<"src", "/", "shared", "/", "constants">>,
     <<"src", "/", "shared", "/", "types">>,
     <<"src", "/", "assets", "/", "images">>,
     <<"src", "/", "assets", "/", "icons">>,
     <<"src", "/", "assets", "/", "fonts">> >>

CleanFiles ==
  << [path |-> <<"src", "/", "assets", "/", "images", "/", ".", "gitkeep">>,
      content |-> ""],
     [path |-> <<"src", "/", "assets", "/", "icons", "/", ".", "gitkeep">>,
      content |-> ""],
     [path |-> <<"src", "/", "assets", "/", "fonts", "/", ".", "gitkeep">>,
      content |-> ""],
     [path |-> <<"src", "/", "backend", "/", "entities", "/", "index", ".", "ts">>,
      content |-> "<clean:src/backend/entities/index.ts>"],
     [path |-> <<"src", "/", "backend", "/", "usecases", "/", "index", ".", "ts">>,
      content |-> "// Business use cases and application logic\nexport {};\n"],
     [path |-> <<"src", "/", "backend", "/", "interfaces", "/", "index", ".", "ts">>,
      content |-> "// Repository and service interfaces\nexport {};\n"],
     [path |-> <<"src", "/", "backend", "/", "repositories", "/", "index", ".", "ts">>,
      content |-> "// Repository implementations for data access\nexport {};\n"],
     [path |-> <<"src", "/", "backend", "/", "services", "/", "index", ".", "ts">>,
      content |-> "// External API clients and services\nexport {};\n"],
     [path |-> <<"src", "/", "backend", "/", "mappers", "/", "index", ".", "ts">>,
      content |-> "// DTO to Entity mappers\nexport {};\n"],
     [path |-> <<"src", "/", "frontend", "/", "components", "/", "index", ".", "ts">>,
      content |-> "// Reusable UI components\nexport {};\n"],
     [path |-> <<"src", "/", "frontend", "/", "viewmodels", "/", "index", ".", "ts">>,
      content |-> "// ViewModels for state management\nexport {};\n"],
     [path |-> <<"src", "/", "frontend", "/", "pages", "/", "index", ".", "ts">>,
      content |-> "// Page-level components\nexport {};\n"],
     [path |-> <<"src", "/", "frontend", "/", "hooks", "/", "index", ".", "ts">>,
      content |-> "// Custom React hooks\nexport {};\n"],
     [path |-> <<"src", "/", "shared", "/", "utils", "/", "index", ".", "ts">>,
      content |-> "// Shared utility functions\nexport {};\n"],
     [path |-> <<"src", "/", "shared", "/", "constants", "/", "index", ".", "ts">>,
      content |-> "// Shared constants\nexport {};\n"],
     [path |-> <<"src", "/", "shared", "/", "types", "/", "index", ".", "ts">>,
      content |-> "// Shared TypeScript types\nexport type AppType = unknown;\n"],
     [path |-> <<"src", "/", "App", ".", "tsx">>,
      content |-> "<clean:src/App.tsx>"],
     [path |-> <<"src", "/", "main", ".", "tsx">>,
      content |-> "<layered:src/main.tsx>"],
     [path |-> <<"package", ".", "json">>,
      content |-> "<clean:package.json>"],
     [path |-> <<"tsconfig", ".", "json">>,
      content |-> "<clean:tsconfig.json>"],
     [path |-> <<"tsconfig", ".", "node", ".", "json">>,
      content |-> "<layered:tsconfig.node.json>"],
     [path |-> <<"vite", ".", "config", ".", "ts">>,
      content |-> "<clean:vite.config.ts>"],
     [path |-> <<"public", "/", "index", ".", "html">>,
      content |-> "<clean:public/index.html>"],
     [path |-> <<"public", "/", "vite", ".", "svg">>,
      content |-> "<layered:public/vite.svg>"],
     [path |-> <<".", "gitignore">>,
      content |-> "node_modules\ndist\n.env\n.env.local\n*.log\n.DS_Store\ncoverage\n"],
     [path |-> <<"README", ".", "md">>,
      content |-> "<clean:README.md>"] >>

CleanLabel == "Clean Architecture (Backend-Agnostic)"

\* PatternType (src/server.ts:10) and PATTERNS (src/server.ts:65)
\* What the tests read in the contents the catalog names.  A content the
\* model keeps by name stands for the text at the lines given.
\* '<!DOCTYPE html>' occurs in: public/index.html of layered (l.212-214),
\* feature (l.395-397), atomic (l.550-552) and clean (l.716-718)
HasDoctype(content) ==
  content \in {"<layered:public/index.html>", "<feature:public/index.html>",
               "<atomic:public/index.html>", "<clean:public/index.html>"}

\* 'id="root"' occurs in the same four texts
HasRootElement(content) ==
  content \in {"<layered:public/index.html>", "<feature:public/index.html>",
               "<atomic:public/index.html>", "<clean:public/index.html>"}

\* the keys of compilerOptions.paths in a tsconfig.json text: none in the
\* one of layered and atomic (l.162-187, l.500-525), three in the one of
\* feature (l.339-369), four in the one of clean (l.659-690)
CompilerOptionsPaths(content) ==
  IF content = "<feature:tsconfig.json>"
    THEN {"@features/*", "@shared/*", "@assets/*"}
  ELSE IF content = "<clean:tsconfig.json>"
    THEN {"@backend/*", "@frontend/*", "@shared/*", "@assets/*"}
  ELSE {}

PatternTypes == {"layered", "feature", "atomic", "clean"}

PATTERNS ==
  [layered |-> [label |-> LayeredLabel, directories |-> LayeredDirectories,
                files |-> LayeredFiles],
   feature |-> [label |-> FeatureLabel, directories |-> FeatureDirectories,
                files |-> FeatureFiles],
   atomic  |-> [label |-> AtomicLabel, directories |-> AtomicDirectories,
                files |-> AtomicFiles],
   clean   |-> [label |-> CleanLabel, directories |-> CleanDirectories,
                files |-> CleanFiles]]

Min(a, b) == IF a <= b THEN a ELSE b

\* TRUE in the specification whose invocations iterate over whole catalog
\* entries; constant along every behaviour
VARIABLE whole

\* Faulty variant: the entry without the files that lie directly at the root.
PatternWithoutRootFiles(patternType) ==
  LET full == PATTERNS[patternType] IN
  [label |-> full.label,
   directories |-> full.directories,
   files |-> SelectSeq(full.files, LAMBDA file : Len(Split(file.path)) > 1)]

\* Faulty variant: the entry with one more directory, '../outside'.
PatternWithEscapingEntry(patternType) ==
  LET full == PATTERNS[patternType] IN
  [label |-> full.label,
   directories |-> Append(full.directories, <<Dot, Dot, Slash, "outside">>),
   files |-> full.files]

\* The pattern a modelled invocation iterates over: the whole catalog entry,
\* or the entry cut to its first MaxDirs directories and first MaxFiles files.
Pattern(patternType) ==
  LET full == PATTERNS[patternType] IN
  IF whole THEN full ELSE
  [label |-> full.label,
   directories |-> SubSeq(full.directories, 1, Min(MaxDirs, Len(full.directories))),
   files |-> SubSeq(full.files, 1, Min(MaxFiles, Len(full.files)))]

\* ------------------------------------------------------------------------
\* The filesystem: a function from the absolute paths that exist to nodes.
\* ------------------------------------------------------------------------
DirNode == [kind |-> "dir", content |-> ""]
FileNode(content) == [kind |-> "file", content |-> content]

PathOf(segs) == <<Slash>> \o JoinSegs(segs)

\* the proper ancestors of an absolute path, the root included
Ancestors(p) ==
  LET segs == Segments(p) IN
  {PathOf(SubSeq(segs, 1, n)) : n \in 0..(Len(segs) - 1)}

IsFile(f, p) == p \in DOMAIN f /\ f[p].kind = "file"
IsDir(f, p) == p \in DOMAIN f /\ f[p].kind = "dir"

\* p and its missing ancestors added to f as directories
WithDirs(f, p) ==
  [q \in DOMAIN f \cup Ancestors(p) \cup {p} |->
     IF q \in DOMAIN f THEN f[q] ELSE DirNode]

WithFile(f, p, content) ==
  [q \in DOMAIN f \cup {p} |-> IF q = p THEN FileNode(content) ELSE f[q]]

\* fs.mkdir(p, { recursive: true }): the error code ("ok" for none) and the
\* filesystem afterwards.  A regular file on the way is ENOTDIR, a regular
\* file at p itself is EEXIST, an existing directory is success.
Mkdir(f, p) ==
  IF \E a \in Ancestors(p) : IsFile(f, a) THEN [code |-> "ENOTDIR", fs |-> f]
  ELSE IF IsFile(f, p) THEN [code |-> "EEXIST", fs |-> f]
  ELSE [code |-> "ok", fs |-> WithDirs(f, p)]

\* Faulty variant: flag 'w' instead of 'wx', an existing file is truncated
\* and rewritten.
WriteFileW(f, p, content) ==
  IF \E a \in Ancestors(p) : IsFile(f, a) THEN [code |-> "ENOTDIR", fs |-> f]
  ELSE IF PathDirname(p) \notin DOMAIN f THEN [code |-> "ENOENT", fs |-> f]
  ELSE IF IsDir(f, p) THEN [code |-> "EISDIR", fs |-> f]
  ELSE [code |-> "ok", fs |-> WithFile(f, p, content)]

\* Faulty variant: the file is created and its content never written.
WriteFileWxNoContent(f, p, content) ==
  IF \E a \in Ancestors(p) : IsFile(f, a) THEN [code |-> "ENOTDIR", fs |-> f]
  ELSE IF PathDirname(p) \notin DOMAIN f THEN [code |-> "ENOENT", fs |-> f]
  ELSE IF p \in DOMAIN f THEN [code |-> "EEXIST", fs |-> f]
  ELSE [code |-> "ok", fs |-> WithFile(f, p, "")]

\* fs.writeFile(p, content, { flag: 'wx' }): exclusive create, then write.
WriteFileWx(f, p, content) ==
  IF \E a \in Ancestors(p) : IsFile(f, a) THEN [code |-> "ENOTDIR", fs |-> f]
  ELSE IF PathDirname(p) \notin DOMAIN f THEN [code |-> "ENOENT", fs |-> f]
  ELSE IF p \in DOMAIN f THEN [code |-> "EEXIST", fs |-> f]
  ELSE [code |-> "ok", fs |-> WithFile(f, p, content)]

\* Environmental failures of a filesystem call.  EACCES: the call is refused
\* and changes nothing.  ENOSPC (writeFile only): the file has been created
\* by the exclusive open, then the write of its bytes fails; what is left is
\* the file cut short, modelled by its shortest form, the empty file.
MkdirFault(f, p) == [code |-> "EACCES", fs |-> f]

WriteFaults(f, p, content) ==
  {[code |-> "EACCES", fs |-> f]} \cup
  (IF WriteFileWx(f, p, content).code = "ok" /\ content # ""
     THEN {[code |-> "ENOSPC", fs |-> WithFile(f, p, "")]}
     ELSE {})

FaultCodes == {"EACCES", "ENOSPC"}
Injected(r) == r.code \in FaultCodes

\* ------------------------------------------------------------------------
\* State
\* ------------------------------------------------------------------------
\* The two invocations of scaffoldProject the model follows.
Procs == {"p1", "p2"}

BaseDir == <<"/", "tmp", "/", "X">>
CustomContent == "custom"

\* targetPath arguments given to scaffoldProject
ScaffoldInputs ==
  { <<".">>,
    <<"app">>,
    <<".", ".">>,
    <<".", ".", "/", ".", ".", "/", "etc">>,
    <<"/", "etc", "/", "passwd">>,
    <<"app", "/", ".", ".", "/", ".", ".">> }

\* patternType arguments given to scaffoldProject: a pattern whose first
\* files hold text and one whose first files are empty .gitkeep files
ScaffoldPatterns == {"layered", "feature"}

VARIABLES
  fs,              \* the filesystem
  pc,              \* per invocation: where it is suspended
  args,            \* per invocation: [inputPath, patternType]
  resolvedTarget,  \* per invocation: local of scaffoldProject
  idx,             \* per invocation: position in the running for-of loop
  createdDirs,     \* per invocation: local of scaffoldProject
  createdFiles,    \* per invocation: local of scaffoldProject
  skippedFiles,    \* per invocation: local of scaffoldProject
  outcome,         \* per invocation: the returned ScaffoldResult or the thrown Error
  ops,             \* per invocation: the filesystem calls it has completed
  fsBefore,        \* per invocation: the filesystem when it was called
  fsAfter,         \* per invocation: the filesystem when it returned or threw
  faults,          \* number of environmental failures so far
  hPc,             \* tool-call handler: where it is
  hReq,            \* tool-call handler: the request it was given
  hResp,           \* tool-call handler: the response it returned
  gIn,             \* path guard alone: the inputPath
  gOut             \* path guard alone: what resolveSafeTarget did with it

vars == <<fs, pc, args, resolvedTarget, idx, createdDirs, createdFiles,
          skippedFiles, outcome, ops, fsBefore, fsAfter, faults, whole,
          hPc, hReq, hResp, gIn, gOut>>

guardVars == <<gIn, gOut>>
handlerVars == <<hPc, hReq, hResp>>
envVars == <<faults>>

NoArgs == [inputPath |-> <<>>, patternType |-> "none"]
NoPath == <<>>
NoOutcome == [kind |-> "none"]
Pending == [kind |-> "pending"]
EmptyFs == [q \in {Root} |-> DirNode]
InitFs == WithDirs(EmptyFs, BaseDir)

Running(p) == pc[p] \in {"root", "dir", "fileDir", "fileWrite", "fileData"}
Finished(p) == pc[p] \in {"done", "failed"}

\* ------------------------------------------------------------------------
\* The disk before the first call: the base directory, and possibly one file
\* of the user's own (with the directories above it) at a path an invocation
\* will touch.
\* ------------------------------------------------------------------------
Targets ==
  {g.value : g \in {h \in {resolveSafeTarget(i, BaseDir) : i \in ScaffoldInputs} : h.ok}}

\* every path an invocation may touch at or below a target root
TouchedPaths ==
  UNION {
    LET pat == Pattern(k)
        ends == {PathJoin(t, pat.directories[n]) : n \in 1..Len(pat.directories)}
                  \cup {PathJoin(t, pat.files[n].path) : n \in 1..Len(pat.files)}
    IN ends \cup UNION {Ancestors(e) : e \in ends} \cup {t}
    : t \in Targets, k \in ScaffoldPatterns }

SeedPaths == TouchedPaths \ (Ancestors(BaseDir) \cup {BaseDir})

Seeded(f, path) == WithFile(WithDirs(f, PathDirname(path)), path, CustomContent)

\* the paths at which an invocation will write a file
FilePathsTouched ==
  UNION { {PathJoin(t, Pattern(k).files[n].path) : n \in 1..Len(Pattern(k).files)}
          : t \in Targets, k \in ScaffoldPatterns }

\* a directory of the user's own where the pattern has a file
SeededDir(f, path) == WithDirs(f, path)

InitialDisks ==
  {InitFs} \cup {Seeded(InitFs, path) : path \in SeedPaths}
           \cup {SeededDir(InitFs, path) : path \in FilePathsTouched}

InitInvocations ==
  /\ pc = [p \in Procs |-> "idle"]
  /\ args = [p \in Procs |-> NoArgs]
  /\ resolvedTarget = [p \in Procs |-> NoPath]
  /\ idx = [p \in Procs |-> 0]
  /\ createdDirs = [p \in Procs |-> <<>>]
  /\ createdFiles = [p \in Procs |-> <<>>]
  /\ skippedFiles = [p \in Procs |-> <<>>]
  /\ outcome = [p \in Procs |-> NoOutcome]
  /\ ops = [p \in Procs |-> <<>>]
  /\ fsBefore = [p \in Procs |-> EmptyFs]
  /\ fsAfter = [p \in Procs |-> EmptyFs]

InitScaffold ==
  /\ InitInvocations
  /\ faults = 0

NoRequest == [name |-> "none"]
NoResponse == [kind |-> "none"]

InitHandler ==
  /\ hPc = "idle"
  /\ hReq = NoRequest
  /\ hResp = NoResponse

Init ==
  /\ whole = FALSE
  /\ fs \in InitialDisks
  /\ InitScaffold
  /\ InitHandler
  /\ gIn = <<>>
  /\ gOut = NoOutcome

\* ------------------------------------------------------------------------
\* scaffoldProject (src/server.ts:809-838), one action per suspension point
\* ------------------------------------------------------------------------
\* Faulty variant: the files loop started at its second entry.
PositionSkipsFirstFile(pat, phase, n) ==
  IF phase = "dir" /\ n <= Len(pat.directories) THEN [pc |-> "dir", idx |-> n]
  ELSE IF phase = "dir" /\ Len(pat.files) >= 2 THEN [pc |-> "fileDir", idx |-> 2]
  ELSE IF phase = "file" /\ n <= Len(pat.files) THEN [pc |-> "fileDir", idx |-> n]
  ELSE [pc |-> "done", idx |-> 0]

\* Faulty variant: the files loop starts once the first directory is ensured.
PositionLeavesDirectoriesEarly(pat, phase, n) ==
  IF phase = "dir" /\ n <= Len(pat.directories) /\ n <= 1 THEN [pc |-> "dir", idx |-> n]
  ELSE IF phase = "dir" /\ Len(pat.files) >= 1 THEN [pc |-> "fileDir", idx |-> 1]
  ELSE IF phase = "file" /\ n <= Len(pat.files) THEN [pc |-> "fileDir", idx |-> n]
  ELSE [pc |-> "done", idx |-> 0]

\* Where the invocation suspends next: the n-th entry of the directories
\* loop, else the n-th entry of the files loop, else the return statement.
Position(pat, phase, n) ==
  IF phase = "dir" /\ n <= Len(pat.directories) THEN [pc |-> "dir", idx |-> n]
  ELSE IF phase = "dir" /\ Len(pat.files) >= 1 THEN [pc |-> "fileDir", idx |-> 1]
  ELSE IF phase = "file" /\ n <= Len(pat.files) THEN [pc |-> "fileDir", idx |-> n]
  ELSE [pc |-> "done", idx |-> 0]

ScaffoldResult(p, pat, cd, cf, sf) ==
  [kind |-> "result",
   resolvedTarget |-> resolvedTarget[p],
   createdDirs |-> cd,
   createdFiles |-> cf,
   skippedFiles |-> sf,
   label |-> pat.label]

Thrown(site, path, cause) ==
  [kind |-> "error",
   error |-> [name |-> "Error", site |-> site, path |-> path, cause |-> cause]]

OpRecord(op, path, r) == [op |-> op, path |-> path, code |-> r.code]

\* Faulty variant: createdFiles is one array shared by all invocations.
ProceedSharedCreatedFiles(p, pos, cd, cf, sf, r, op) ==
  LET pat == Pattern(args[p].patternType) IN
  /\ fs' = r.fs
  /\ pc' = [pc EXCEPT ![p] = pos.pc]
  /\ idx' = [idx EXCEPT ![p] = pos.idx]
  /\ createdDirs' = [createdDirs EXCEPT ![p] = cd]
  /\ createdFiles' = [q \in Procs |-> cf]
  /\ skippedFiles' = [skippedFiles EXCEPT ![p] = sf]
  /\ ops' = [ops EXCEPT ![p] = Append(@, op)]
  /\ outcome' = IF pos.pc = "done"
                  THEN [outcome EXCEPT ![p] = ScaffoldResult(p, pat, cd, cf, sf)]
                  ELSE outcome
  /\ fsAfter' = IF pos.pc = "done" THEN [fsAfter EXCEPT ![p] = r.fs] ELSE fsAfter
  /\ faults' = IF Injected(r) THEN faults + 1 ELSE faults
  /\ UNCHANGED <<args, resolvedTarget, fsBefore, whole, handlerVars, guardVars>>

\* the filesystem call r completed and the invocation goes on to pos
Proceed(p, pos, cd, cf, sf, r, op) ==
  LET pat == Pattern(args[p].patternType) IN
  /\ fs' = r.fs
  /\ pc' = [pc EXCEPT ![p] = pos.pc]
  /\ idx' = [idx EXCEPT ![p] = pos.idx]
  /\ createdDirs' = [createdDirs EXCEPT ![p] = cd]
  /\ createdFiles' = [createdFiles EXCEPT ![p] = cf]
  /\ skippedFiles' = [skippedFiles EXCEPT ![p] = sf]
  /\ ops' = [ops EXCEPT ![p] = Append(@, op)]
  /\ outcome' = IF pos.pc = "done"
                  THEN [outcome EXCEPT ![p] = ScaffoldResult(p, pat, cd, cf, sf)]
                  ELSE outcome
  /\ fsAfter' = IF pos.pc = "done" THEN [fsAfter EXCEPT ![p] = r.fs] ELSE fsAfter
  /\ faults' = IF Injected(r) THEN faults + 1 ELSE faults
  /\ UNCHANGED <<args, resolvedTarget, fsBefore, whole, handlerVars, guardVars>>

\* Faulty variant: a failure undoes what the invocation has put on disk.
ThrowRollsBack(p, err, r, op) ==
  /\ fs' = fsBefore[p]
  /\ pc' = [pc EXCEPT ![p] = "failed"]
  /\ outcome' = [outcome EXCEPT ![p] = err]
  /\ ops' = [ops EXCEPT ![p] = Append(@, op)]
  /\ fsAfter' = [fsAfter EXCEPT ![p] = fsBefore[p]]
  /\ faults' = IF Injected(r) THEN faults + 1 ELSE faults
  /\ UNCHANGED <<args, resolvedTarget, idx, createdDirs, createdFiles,
                 skippedFiles, fsBefore, whole, handlerVars, guardVars>>

\* the filesystem call r failed and the error leaves scaffoldProject
Throw(p, err, r, op) ==
  /\ fs' = r.fs
  /\ pc' = [pc EXCEPT ![p] = "failed"]
  /\ outcome' = [outcome EXCEPT ![p] = err]
  /\ ops' = [ops EXCEPT ![p] = Append(@, op)]
  /\ fsAfter' = [fsAfter EXCEPT ![p] = r.fs]
  /\ faults' = IF Injected(r) THEN faults + 1 ELSE faults
  /\ UNCHANGED <<args, resolvedTarget, idx, createdDirs, createdFiles,
                 skippedFiles, fsBefore, whole, handlerVars, guardVars>>

MkdirOutcomes(f, path) ==
  {Mkdir(f, path)} \cup (IF faults < MaxFaults THEN {MkdirFault(f, path)} ELSE {})

WriteOutcomes(f, path, content) ==
  {WriteFileWx(f, path, content)} \cup
  (IF faults < MaxFaults THEN WriteFaults(f, path, content) ELSE {})

\* The call, up to the first await: the path guard, the catalog lookup and
\* the issue of the mkdir of the root (lines 814-817).
Call(p, inputPath, patternType) ==
  LET guard == resolveSafeTarget(inputPath, BaseDir) IN
  /\ pc[p] = "idle"
  /\ args' = [args EXCEPT ![p] = [inputPath |-> inputPath, patternType |-> patternType]]
  /\ fsBefore' = [fsBefore EXCEPT ![p] = fs]
  /\ IF guard.ok
       THEN /\ resolvedTarget' = [resolvedTarget EXCEPT ![p] = guard.value]
            /\ pc' = [pc EXCEPT ![p] = "root"]
            /\ outcome' = [outcome EXCEPT ![p] = Pending]
            /\ UNCHANGED fsAfter
       ELSE /\ pc' = [pc EXCEPT ![p] = "failed"]
            /\ outcome' = [outcome EXCEPT ![p] =
                             [kind |-> "error", error |-> guard.error]]
            /\ fsAfter' = [fsAfter EXCEPT ![p] = fs]
            /\ UNCHANGED resolvedTarget
  /\ UNCHANGED <<fs, idx, createdDirs, createdFiles, skippedFiles, ops,
                 envVars, whole, guardVars>>

\* Faulty variant: ensureDirectory takes EEXIST for "already there", as
\* ensureFile does.
EnsureDirectoryStepToleratesExisting(p, dirPath, pos, cd) ==
  \E r \in MkdirOutcomes(fs, dirPath) :
    LET op == OpRecord("mkdir", dirPath, r) IN
    IF r.code \in {"ok", "EEXIST"}
      THEN Proceed(p, pos, cd, createdFiles[p], skippedFiles[p], r, op)
      ELSE Throw(p, Thrown("Failed to create directory", dirPath, r.code), r, op)

\* ensureDirectory (lines 769-777) of a path, inside invocation p
EnsureDirectoryStep(p, dirPath, pos, cd) ==
  \E r \in MkdirOutcomes(fs, dirPath) :
    LET op == OpRecord("mkdir", dirPath, r) IN
    IF r.code = "ok"
      THEN Proceed(p, pos, cd, createdFiles[p], skippedFiles[p], r, op)
      ELSE Throw(p, Thrown("Failed to create directory", dirPath, r.code), r, op)

\* await ensureDirectory(resolvedTarget) (line 817)
EnsureRoot(p) ==
  /\ pc[p] = "root"
  /\ EnsureDirectoryStep(p, resolvedTarget[p],
                         Position(Pattern(args[p].patternType), "dir", 1),
                         createdDirs[p])

\* Faulty variant: only the directories that did not exist are recorded.
EnsureDirOnlyNew(p) ==
  /\ pc[p] = "dir"
  /\ LET pat == Pattern(args[p].patternType)
         dir == pat.directories[idx[p]]
     IN EnsureDirectoryStep(p, PathJoin(resolvedTarget[p], dir),
                            Position(pat, "dir", idx[p] + 1),
                            IF IsDir(fs, PathJoin(resolvedTarget[p], dir))
                              THEN createdDirs[p]
                              ELSE Append(createdDirs[p], dir))

\* Faulty variant: the directories loop reports the joined path it created
\* instead of the pattern's relative entry.
EnsureDirReportsJoinedPath(p) ==
  /\ pc[p] = "dir"
  /\ LET pat == Pattern(args[p].patternType)
         dir == pat.directories[idx[p]]
     IN EnsureDirectoryStep(p, PathJoin(resolvedTarget[p], dir),
                            Position(pat, "dir", idx[p] + 1),
                            Append(createdDirs[p], PathJoin(resolvedTarget[p], dir)))

\* Faulty variant: the directories loop records the entry without creating it.
EnsureDirSkipsMkdir(p) ==
  /\ pc[p] = "dir"
  /\ LET pat == Pattern(args[p].patternType)
         dir == pat.directories[idx[p]]
         r == [code |-> "ok", fs |-> fs]
     IN Proceed(p, Position(pat, "dir", idx[p] + 1), Append(createdDirs[p], dir),
                createdFiles[p], skippedFiles[p], r,
                OpRecord("mkdir", PathJoin(resolvedTarget[p], dir), r))

\* one turn of the directories loop (lines 823-826)
EnsureDir(p) ==
  /\ pc[p] = "dir"
  /\ LET pat == Pattern(args[p].patternType)
         dir == pat.directories[idx[p]]
     IN EnsureDirectoryStep(p, PathJoin(resolvedTarget[p], dir),
                            Position(pat, "dir", idx[p] + 1),
                            Append(createdDirs[p], dir))

\* Faulty variant: a failure of the parent mkdir inside ensureFile is thrown
\* with the message of ensureDirectory.
EnsureFileMkdirThrowsDirectoryError(p) ==
  /\ pc[p] = "fileDir"
  /\ LET pat == Pattern(args[p].patternType)
         file == pat.files[idx[p]]
         filePath == PathJoin(resolvedTarget[p], file.path)
     IN \E r \in MkdirOutcomes(fs, PathDirname(filePath)) :
          LET op == OpRecord("mkdir", PathDirname(filePath), r) IN
          IF r.code = "ok"
            THEN Proceed(p, [pc |-> "fileWrite", idx |-> idx[p]], createdDirs[p],
                         createdFiles[p], skippedFiles[p], r, op)
          ELSE IF r.code = "EEXIST"
            THEN Proceed(p, Position(pat, "file", idx[p] + 1), createdDirs[p],
                         createdFiles[p], Append(skippedFiles[p], file.path), r, op)
          ELSE Throw(p, Thrown("Failed to create directory", PathDirname(filePath), r.code), r, op)

\* ensureFile (lines 786-799), first await: mkdir of the parent directory.
\* EEXIST is caught and ensureFile returns false without writing.
EnsureFileMkdir(p) ==
  /\ pc[p] = "fileDir"
  /\ LET pat == Pattern(args[p].patternType)
         file == pat.files[idx[p]]
         filePath == PathJoin(resolvedTarget[p], file.path)
     IN \E r \in MkdirOutcomes(fs, PathDirname(filePath)) :
          LET op == OpRecord("mkdir", PathDirname(filePath), r) IN
          IF r.code = "ok"
            THEN Proceed(p, [pc |-> "fileWrite", idx |-> idx[p]], createdDirs[p],
                         createdFiles[p], skippedFiles[p], r, op)
          ELSE IF r.code = "EEXIST"
            THEN Proceed(p, Position(pat, "file", idx[p] + 1), createdDirs[p],
                         createdFiles[p], Append(skippedFiles[p], file.path), r, op)
          ELSE Throw(p, Thrown("Failed to create file", filePath, r.code), r, op)

\* Faulty variant: ensureFile returns true when the file already exists.
EnsureFileWriteCountsExisting(p) ==
  /\ pc[p] = "fileWrite"
  /\ LET pat == Pattern(args[p].patternType)
         file == pat.files[idx[p]]
         filePath == PathJoin(resolvedTarget[p], file.path)
     IN \E r \in WriteOutcomes(fs, filePath, file.content) :
          LET op == OpRecord("writeFile", filePath, r) IN
          IF r.code = "ok" \/ r.code = "EEXIST"
            THEN Proceed(p, Position(pat, "file", idx[p] + 1), createdDirs[p],
                         Append(createdFiles[p], file.path), skippedFiles[p], r, op)
          ELSE Throw(p, Thrown("Failed to create file", filePath, r.code), r, op)

\* Faulty variant: a file that already exists is recorded in neither list.
EnsureFileWriteForgetsSkipped(p) ==
  /\ pc[p] = "fileWrite"
  /\ LET pat == Pattern(args[p].patternType)
         file == pat.files[idx[p]]
         filePath == PathJoin(resolvedTarget[p], file.path)
     IN \E r \in WriteOutcomes(fs, filePath, file.content) :
          LET op == OpRecord("writeFile", filePath, r) IN
          IF r.code = "ok"
            THEN Proceed(p, Position(pat, "file", idx[p] + 1), createdDirs[p],
                         Append(createdFiles[p], file.path), skippedFiles[p], r, op)
          ELSE IF r.code = "EEXIST"
            THEN Proceed(p, Position(pat, "file", idx[p] + 1), createdDirs[p],
                         createdFiles[p], skippedFiles[p], r, op)
          ELSE Throw(p, Thrown("Failed to create file", filePath, r.code), r, op)

\* ensureFile, second await: the exclusive write; then lines 830-834.
EnsureFileWrite(p) ==
  /\ pc[p] = "fileWrite"
  /\ LET pat == Pattern(args[p].patternType)
         file == pat.files[idx[p]]
         filePath == PathJoin(resolvedTarget[p], file.path)
     IN \E r \in WriteOutcomes(fs, filePath, file.content) :
          LET op == OpRecord("writeFile", filePath, r) IN
          IF r.code = "ok"
            THEN Proceed(p, Position(pat, "file", idx[p] + 1), createdDirs[p],
                         Append(createdFiles[p], file.path), skippedFiles[p], r, op)
          ELSE IF r.code = "EEXIST"
            THEN Proceed(p, Position(pat, "file", idx[p] + 1), createdDirs[p],
                         createdFiles[p], Append(skippedFiles[p], file.path), r, op)
          ELSE Throw(p, Thrown("Failed to create file", filePath, r.code), r, op)

\* ------------------------------------------------------------------------
\* fs.writeFile(filePath, content, { flag: 'wx' }) seen by another
\* invocation: the exclusive open creates the file, empty; its bytes are
\* written afterwards, and the call completes when they are.  Between the
\* two, other invocations' calls may complete.
\* ------------------------------------------------------------------------
\* the exclusive open of the writeFile of one turn of the files loop
EnsureFileWriteOpen(p) ==
  /\ pc[p] = "fileWrite"
  /\ LET pat == Pattern(args[p].patternType)
         file == pat.files[idx[p]]
         filePath == PathJoin(resolvedTarget[p], file.path)
     IN \E r \in WriteOutcomes(fs, filePath, "") :
          LET op == OpRecord("writeFile", filePath, r) IN
          IF r.code = "ok"
            THEN /\ fs' = r.fs
                 /\ pc' = [pc EXCEPT ![p] = "fileData"]
                 /\ UNCHANGED <<args, resolvedTarget, idx, createdDirs,
                                createdFiles, skippedFiles, outcome, ops,
                                fsBefore, fsAfter, envVars, whole, handlerVars,
                                guardVars>>
          ELSE IF r.code = "EEXIST"
            THEN Proceed(p, Position(pat, "file", idx[p] + 1), createdDirs[p],
                         createdFiles[p], Append(skippedFiles[p], file.path), r, op)
          ELSE Throw(p, Thrown("Failed to create file", filePath, r.code), r, op)

\* what writing the bytes into the file just opened may come to
DataOutcomes(f, path, content) ==
  {[code |-> "ok", fs |-> WithFile(f, path, content)]} \cup
  (IF faults < MaxFaults /\ content # "" THEN {[code |-> "ENOSPC", fs |-> f]} ELSE {})

\* Faulty variant: a write cut short is taken for a complete one.
EnsureFileWriteDataCutShort(p) ==
  /\ pc[p] = "fileData"
  /\ LET pat == Pattern(args[p].patternType)
         file == pat.files[idx[p]]
         filePath == PathJoin(resolvedTarget[p], file.path)
         r == [code |-> "ok", fs |-> fs]
     IN Proceed(p, Position(pat, "file", idx[p] + 1), createdDirs[p],
                Append(createdFiles[p], file.path), skippedFiles[p], r,
                OpRecord("writeFile", filePath, r))

\* the bytes are written and the writeFile completes
EnsureFileWriteData(p) ==
  /\ pc[p] = "fileData"
  /\ LET pat == Pattern(args[p].patternType)
         file == pat.files[idx[p]]
         filePath == PathJoin(resolvedTarget[p], file.path)
     IN \E r \in DataOutcomes(fs, filePath, file.content) :
          LET op == OpRecord("writeFile", filePath, r) IN
          IF r.code = "ok"
            THEN Proceed(p, Position(pat, "file", idx[p] + 1), createdDirs[p],
                         Append(createdFiles[p], file.path), skippedFiles[p], r, op)
            ELSE Throw(p, Thrown("Failed to create file", filePath, r.code), r, op)

\* ------------------------------------------------------------------------
\* Specification: the invocations run one after the other, "p1" first.
\* ------------------------------------------------------------------------
CallInTurn(p) ==
  /\ \A q \in Procs : ~Running(q)
  /\ p = "p1" \/ Finished("p1")
  /\ \E inputPath \in ScaffoldInputs, patternType \in ScaffoldPatterns :
       Call(p, inputPath, patternType)
  /\ UNCHANGED handlerVars

Next ==
  \/ \E p \in Procs : CallInTurn(p)
  \/ \E p \in Procs : EnsureRoot(p)
  \/ \E p \in Procs : EnsureDir(p)
  \/ \E p \in Procs : EnsureFileMkdir(p)
  \/ \E p \in Procs : EnsureFileWrite(p)

Spec == Init /\ [][Next]_vars

\* ------------------------------------------------------------------------
\* Specification of the path guard alone: resolveSafeTarget applied to every
\* path string of at most MaxLen tokens over the alphabet below.
\* ------------------------------------------------------------------------
GuardNames == {"tmp", "X"}
GuardTokens == {Slash, Dot} \cup GuardNames

\* token sequences that denote a string: no two names side by side
IsString(s) ==
  \A n \in 1..(Len(s) - 1) : ~(s[n] \in GuardNames /\ s[n + 1] \in GuardNames)

GuardInputs ==
  {s \in UNION {[1..n -> GuardTokens] : n \in 1..MaxLen} : IsString(s)}

InitGuard ==
  /\ whole = FALSE
  /\ fs = InitFs
  /\ InitScaffold
  /\ InitHandler
  /\ gIn \in GuardInputs
  /\ gOut = NoOutcome

GuardReturns ==
  /\ gOut = NoOutcome
  /\ resolveSafeTarget(gIn, BaseDir).ok
  /\ gOut' = [kind |-> "returned", value |-> resolveSafeTarget(gIn, BaseDir).value]
  /\ UNCHANGED <<fs, pc, args, resolvedTarget, idx, createdDirs, createdFiles,
                 skippedFiles, outcome, ops, fsBefore, fsAfter, envVars, whole,
                 handlerVars, gIn>>

GuardThrows ==
  /\ gOut = NoOutcome
  /\ ~resolveSafeTarget(gIn, BaseDir).ok
  /\ gOut' = [kind |-> "error", error |-> resolveSafeTarget(gIn, BaseDir).error]
  /\ UNCHANGED <<fs, pc, args, resolvedTarget, idx, createdDirs, createdFiles,
                 skippedFiles, outcome, ops, fsBefore, fsAfter, envVars, whole,
                 handlerVars, gIn>>

NextGuard == GuardReturns \/ GuardThrows

SpecGuard == InitGuard /\ [][NextGuard]_vars

\* ------------------------------------------------------------------------
\* The tool-call handler (src/server.ts:881-924).  A request carries a tool
\* name and, possibly, arguments; a JSON value is kept with its type.  The
\* handler runs scaffoldProject as invocation "p1" with process.cwd() as the
\* base directory and is suspended at its await until that one has settled.
\* ------------------------------------------------------------------------
Undefined == [type |-> "undefined"]
JsonNumber == [type |-> "number"]
JsonString(v) == [type |-> "string", value |-> v]

ToolNames == {"describe_architectures", "scaffold_react_project", "delete_project"}

RequestPaths ==
  {Undefined, JsonNumber, JsonString(<<>>), JsonString(<<"app">>),
   JsonString(<<".", ".">>), JsonString(<<".", ".", "/", "my-project">>)}

RequestPatternTypes ==
  {Undefined, JsonNumber, JsonString("layered"), JsonString("clean"),
   JsonString("mvc")}

NoArguments == [present |-> FALSE]

RequestArguments ==
  {NoArguments} \cup
  {[present |-> TRUE, path |-> a, pattern_type |-> k] :
     a \in RequestPaths, k \in RequestPatternTypes}

Requests == {[name |-> n, arguments |-> a] : n \in ToolNames, a \in RequestArguments}

\* request.params.arguments ?? {}
OrEmptyObject(arguments) ==
  IF arguments.present THEN arguments
  ELSE [present |-> TRUE, path |-> Undefined, pattern_type |-> Undefined]

\* PatternTypeSchema = z.enum([...]) (lines 32): the issue it raises, if any
PatternTypeSchemaIssues(v) ==
  IF v.type # "string" THEN {[path |-> "pattern_type", code |-> "invalid_type"]}
  ELSE IF v.value \notin PatternTypes
    THEN {[path |-> "pattern_type", code |-> "invalid_enum_value"]}
  ELSE {}

\* Faulty variant: path is z.string() without min(1).
ScaffoldInputSchemaParseNoMin(arguments) ==
  LET pathIssues ==
        IF arguments.path.type # "string"
          THEN {[path |-> "path", code |-> "invalid_type"]}
        ELSE {}
      issues == pathIssues \cup PatternTypeSchemaIssues(arguments.pattern_type)
  IN IF issues = {}
       THEN [ok |-> TRUE,
             value |-> [path |-> arguments.path.value,
                        pattern_type |-> arguments.pattern_type.value]]
       ELSE [ok |-> FALSE, error |-> [name |-> "ZodError", issues |-> issues]]

\* ScaffoldInputSchema.parse (lines 33-36): every issue of every key is
\* collected; the parsed value, or a ZodError carrying the issues
ScaffoldInputSchemaParse(arguments) ==
  LET pathIssues ==
        IF arguments.path.type # "string"
          THEN {[path |-> "path", code |-> "invalid_type"]}
        ELSE IF Len(arguments.path.value) < 1
          THEN {[path |-> "path", code |-> "too_small"]}
        ELSE {}
      issues == pathIssues \cup PatternTypeSchemaIssues(arguments.pattern_type)
  IN IF issues = {}
       THEN [ok |-> TRUE,
             value |-> [path |-> arguments.path.value,
                        pattern_type |-> arguments.pattern_type.value]]
       ELSE [ok |-> FALSE, error |-> [name |-> "ZodError", issues |-> issues]]

\* path.basename(p) of a normalized absolute path
PathBasename(p) ==
  LET segs == Segments(p) IN
  IF segs = <<>> THEN <<>> ELSE segs[Len(segs)]

\* the catch block (lines 916-922): error.message after the prefix, isError
ErrorResponse(error) ==
  [content |-> <<[type |-> "text",
                  text |-> [prefix |-> "Error: ", message |-> error]]>>,
   isError |-> TRUE]

\* lines 885-889
DescribeResponse ==
  [content |-> <<[type |-> "text", text |-> [prefix |-> "ARCHITECTURE_DESCRIPTION"]]>>]

\* lines 895-913: the lines of the success text; the line about skipped files
\* only when there are some
SuccessResponse(result) ==
  [content |->
     <<[type |-> "text",
        text |-> [prefix |-> "Successfully scaffolded: ",
                  label |-> result.label,
                  target |-> result.resolvedTarget,
                  createdDirs |-> Len(result.createdDirs),
                  createdFiles |-> Len(result.createdFiles),
                  skipped |-> IF Len(result.skippedFiles) > 0
                                THEN <<Len(result.skippedFiles)>> ELSE <<>>,
                  cd |-> PathBasename(result.resolvedTarget)]]>>]

UnknownTool(toolName) == [name |-> "Error", site |-> "Unknown tool", tool |-> toolName]

Responded(resp) ==
  /\ hPc' = "responded"
  /\ hResp' = resp

\* the handler from its entry to its return, or to its await of
\* scaffoldProject (which has then run up to its own first await)
HandleCallTool(request) ==
  /\ hPc = "idle"
  /\ hReq' = request
  /\ IF request.name = "describe_architectures"
       THEN /\ Responded(DescribeResponse)
            /\ UNCHANGED <<fs, pc, args, resolvedTarget, idx, createdDirs,
                           createdFiles, skippedFiles, outcome, ops, fsBefore,
                           fsAfter, envVars, whole, guardVars>>
     ELSE IF request.name = "scaffold_react_project"
       THEN LET input == ScaffoldInputSchemaParse(OrEmptyObject(request.arguments)) IN
            IF input.ok
              THEN /\ Call("p1", input.value.path, input.value.pattern_type)
                   /\ hPc' = "awaiting"
                   /\ UNCHANGED hResp
              ELSE /\ Responded(ErrorResponse(input.error))
                   /\ UNCHANGED <<fs, pc, args, resolvedTarget, idx, createdDirs,
                                  createdFiles, skippedFiles, outcome, ops,
                                  fsBefore, fsAfter, envVars, whole, guardVars>>
     ELSE /\ Responded(ErrorResponse(UnknownTool(request.name)))
          /\ UNCHANGED <<fs, pc, args, resolvedTarget, idx, createdDirs,
                         createdFiles, skippedFiles, outcome, ops, fsBefore,
                         fsAfter, envVars, whole, guardVars>>

\* Faulty variant: the rejection of scaffoldProject is not turned into an
\* error response.
HandlerResumeSwallowsError ==
  /\ hPc = "awaiting"
  /\ Finished("p1")
  /\ Responded(IF outcome["p1"].kind = "result"
                 THEN SuccessResponse(outcome["p1"])
                 ELSE DescribeResponse)
  /\ UNCHANGED <<fs, pc, args, resolvedTarget, idx, createdDirs, createdFiles,
                 skippedFiles, outcome, ops, fsBefore, fsAfter, envVars, whole,
                 hReq, guardVars>>

\* the handler after its await: scaffoldProject has returned or thrown
HandlerResume ==
  /\ hPc = "awaiting"
  /\ Finished("p1")
  /\ Responded(IF outcome["p1"].kind = "result"
                 THEN SuccessResponse(outcome["p1"])
                 ELSE ErrorResponse(outcome["p1"].error))
  /\ UNCHANGED <<fs, pc, args, resolvedTarget, idx, createdDirs, createdFiles,
                 skippedFiles, outcome, ops, fsBefore, fsAfter, envVars, whole,
                 hReq, guardVars>>

InitH ==
  /\ whole = FALSE
  /\ fs \in InitialDisks
  /\ InitScaffold
  /\ InitHandler
  /\ gIn = <<>>
  /\ gOut = NoOutcome

NextHandler ==
  \/ \E request \in Requests : HandleCallTool(request)
  \/ EnsureRoot("p1")
  \/ EnsureDir("p1")
  \/ EnsureFileMkdir("p1")
  \/ EnsureFileWrite("p1")
  \/ HandlerResume

SpecHandler == InitH /\ [][NextHandler]_vars

\* ------------------------------------------------------------------------
\* Specification of one invocation over a whole catalog entry, on a disk
\* that holds the base directory only.
\* ------------------------------------------------------------------------
CatalogInputs == { <<"app">>, <<Dot>> }

InitCatalog ==
  /\ whole = TRUE
  /\ fs = InitFs
  /\ InitScaffold
  /\ InitHandler
  /\ gIn = <<>>
  /\ gOut = NoOutcome

CallWhole ==
  /\ \E inputPath \in CatalogInputs, patternType \in PatternTypes :
       Call("p1", inputPath, patternType)
  /\ UNCHANGED handlerVars

NextCatalog ==
  \/ CallWhole
  \/ EnsureRoot("p1")
  \/ EnsureDir("p1")
  \/ EnsureFileMkdir("p1")
  \/ EnsureFileWrite("p1")

SpecCatalog == InitCatalog /\ [][NextCatalog]_vars

\* ------------------------------------------------------------------------
\* Specification of overlapping invocations: scaffoldProject is async, so a
\* second call may begin, and its filesystem calls complete, between any two
\* awaits of the first.  The disk holds the base directory only, and no
\* environmental failure occurs while the invocations overlap.
\* ------------------------------------------------------------------------
\* the first call scaffolds 'app' or 'app/src'; the second one the same root,
\* a root beside it, one inside it or one around it
ConcInputs(p) ==
  IF p = "p1" THEN { <<"app">>, <<"app", Slash, "src">> }
  ELSE { <<"app">>, <<"web">>, <<"app", Slash, "src">> }

InitConc ==
  /\ whole = FALSE
  /\ fs = InitFs
  /\ InitInvocations
  /\ faults = MaxFaults
  /\ InitHandler
  /\ gIn = <<>>
  /\ gOut = NoOutcome

\* invocation p2 is the one called second, at any time after the first
CallAnyTime(p) ==
  /\ p = "p1" \/ pc["p1"] # "idle"
  /\ \E inputPath \in ConcInputs(p), patternType \in ScaffoldPatterns :
       Call(p, inputPath, patternType)
  /\ UNCHANGED handlerVars

NextConc ==
  \/ \E p \in Procs : CallAnyTime(p)
  \/ \E p \in Procs : EnsureRoot(p)
  \/ \E p \in Procs : EnsureDir(p)
  \/ \E p \in Procs : EnsureFileMkdir(p)
  \/ \E p \in Procs : EnsureFileWriteOpen(p)
  \/ \E p \in Procs : EnsureFileWriteData(p)

SpecConc == InitConc /\ [][NextConc]_vars

\* ------------------------------------------------------------------------
\* scaffoldProject run from its call to its end with nothing in between and
\* no environmental failure: the disk it leaves and what it returns or throws
\* ------------------------------------------------------------------------
RECURSIVE AloneDirectories(_, _, _)
AloneDirectories(st, target, dirs) ==
  IF dirs = <<>> \/ st.outcome.kind = "error" THEN st
  ELSE LET dirPath == PathJoin(target, Head(dirs))
           r == Mkdir(st.fs, dirPath)
       IN AloneDirectories(
            IF r.code = "ok"
              THEN [st EXCEPT !.fs = r.fs, !.createdDirs = Append(@, Head(dirs))]
              ELSE [st EXCEPT !.outcome =
                      Thrown("Failed to create directory", dirPath, r.code)],
            target, Tail(dirs))

RECURSIVE AloneFiles(_, _, _)
AloneFiles(st, target, files) ==
  IF files = <<>> \/ st.outcome.kind = "error" THEN st
  ELSE LET file == Head(files)
           filePath == PathJoin(target, file.path)
           m == Mkdir(st.fs, PathDirname(filePath))
           w == WriteFileWx(m.fs, filePath, file.content)
           code == IF m.code = "ok" THEN w.code ELSE m.code
       IN AloneFiles(
            IF code = "ok"
              THEN [st EXCEPT !.fs = w.fs, !.createdFiles = Append(@, file.path)]
            ELSE IF code = "EEXIST"
              THEN [st EXCEPT !.fs = m.fs, !.skippedFiles = Append(@, file.path)]
            ELSE [st EXCEPT !.fs = m.fs, !.outcome =
                    Thrown("Failed to create file", filePath, code)],
            target, Tail(files))

RunAlone(f, inputPath, patternType) ==
  LET guard == resolveSafeTarget(inputPath, BaseDir)
      pat == Pattern(patternType)
  IN IF ~guard.ok
       THEN [fs |-> f, outcome |-> [kind |-> "error", error |-> guard.error]]
     ELSE LET root == Mkdir(f, guard.value)
              st0 == [fs |-> root.fs, createdDirs |-> <<>>, createdFiles |-> <<>>,
                      skippedFiles |-> <<>>,
                      outcome |-> IF root.code = "ok" THEN Pending
                                  ELSE Thrown("Failed to create directory",
                                              guard.value, root.code)]
              st == AloneFiles(AloneDirectories(st0, guard.value, pat.directories),
                               guard.value, pat.files)
          IN [fs |-> st.fs,
              outcome |-> IF st.outcome.kind = "error" THEN st.outcome
                          ELSE [kind |-> "result",
                                resolvedTarget |-> guard.value,
                                createdDirs |-> st.createdDirs,
                                createdFiles |-> st.createdFiles,
                                skippedFiles |-> st.skippedFiles,
                                label |-> pat.label]]

\* ------------------------------------------------------------------------
\* Notions the properties are stated with
\* ------------------------------------------------------------------------
\* p is base itself or lies below it, segment by segment
Within(p, base) ==
  LET ps == Segments(p)
      bs == Segments(base)
  IN Len(ps) >= Len(bs) /\ SubSeq(ps, 1, Len(bs)) = bs

\* p lies strictly below base
Below(p, base) == Within(p, base) /\ Segments(p) # Segments(base)

\* a normalized absolute path: '/' then segments none of which is '', '.' or '..'
IsNormalAbsolute(p) ==
  /\ PathIsAbsolute(p)
  /\ p = Root \/ \A n \in 1..Len(Split(Tail(p))) :
                   Split(Tail(p))[n] \notin {<<>>, <<Dot>>, DotDot}

\* ------------------------------------------------------------------------
\* Properties of the path guard (checked under SpecGuard)
\* ------------------------------------------------------------------------

\* C1: whenever resolveSafeTarget returns, the returned path is absolute and
\* is baseDir itself or a descendant of it; and for every input whose
\* resolved path is neither, it throws instead of returning.
C1_ReturnsOnlyInsideBase ==
  /\ gOut.kind = "returned" =>
       IsNormalAbsolute(gOut.value) /\ Within(gOut.value, BaseDir)
  /\ (gOut # NoOutcome /\ ~Within(PathResolve(BaseDir, gIn), BaseDir)) =>
       (gOut.kind = "error" /\ gOut.error.site = "Security violation")

\* an input that climbs out of baseDir and comes back in is returned
C1_Witness ==
  /\ gOut.kind = "returned"
  /\ StartsWith(gIn, DotDot)
  /\ Below(gOut.value, BaseDir)

\* C2: for every input whose resolved path stays within baseDir, names such
\* as '..foo' and '...' and absolute paths inside baseDir included,
\* resolveSafeTarget returns the resolved path and raises no security
\* violation.
C2_NeverRejectsInsideBase ==
  (gOut # NoOutcome /\ Within(PathResolve(BaseDir, gIn), BaseDir)) =>
    (gOut.kind = "returned" /\ gOut.value = PathResolve(BaseDir, gIn))

\* ------------------------------------------------------------------------
\* Properties of scaffoldProject (checked under Spec)
\* ------------------------------------------------------------------------
PatOf(p) == Pattern(args[p].patternType)
FilePaths(pat) == [n \in 1..Len(pat.files) |-> pat.files[n].path]
Elems(seq) == {seq[n] : n \in 1..Len(seq)}

\* the invocation has passed the path guard
GuardOk(p) == resolvedTarget[p] # NoPath

\* the input resolves to a path that is neither baseDir nor below it
Escapes(inputPath) == ~Within(PathResolve(BaseDir, inputPath), BaseDir)

\* nothing exists below root r in f, and r is not a regular file
EmptyRoot(f, r) == ~IsFile(f, r) /\ \A q \in DOMAIN f : ~Below(q, r)

\* no filesystem call of the log failed for an environmental cause
NoFault(log) == \A n \in 1..Len(log) : log[n].code \notin FaultCodes

\* s can be obtained from t by deleting entries
RECURSIVE IsSubseq(_, _)
IsSubseq(s, t) ==
  IF s = <<>> THEN TRUE
  ELSE IF t = <<>> THEN FALSE
  ELSE IF Head(s) = Head(t) THEN IsSubseq(Tail(s), Tail(t))
  ELSE IsSubseq(s, Tail(t))

\* C3: for every targetPath that escapes baseDir, scaffoldProject fails with
\* the security violation before any filesystem call: it has issued none and
\* the disk when it fails is the disk it was called on.
C3_EscapeFailsBeforeAnyFsCall ==
  \A p \in Procs :
    (pc[p] # "idle" /\ Escapes(args[p].inputPath)) =>
      /\ pc[p] = "failed"
      /\ outcome[p].kind = "error"
      /\ outcome[p].error.site = "Security violation"
      /\ ops[p] = <<>>
      /\ fsAfter[p] = fsBefore[p]

\* an absolute path outside baseDir is refused on a disk that a first
\* invocation has populated
C3_Witness ==
  /\ pc["p1"] = "done"
  /\ pc["p2"] = "failed"
  /\ args["p2"].inputPath = <<"/", "etc", "/", "passwd">>
  /\ fs = fsAfter["p1"]

\* C4: with targetPath '.', the guard returns baseDir itself and a successful
\* scaffold has the pattern's directories and the files it created directly
\* in baseDir; with '..' the call fails with the security violation.
C4_DotIsBaseDirAndDotDotFails ==
  \A p \in Procs :
    /\ (pc[p] # "idle" /\ args[p].inputPath = <<Dot>>) =>
         /\ resolvedTarget[p] = BaseDir
         /\ pc[p] = "done" =>
              /\ outcome[p].resolvedTarget = BaseDir
              /\ \A n \in 1..Len(PatOf(p).directories) :
                   IsDir(fsAfter[p], BaseDir \o <<Slash>> \o PatOf(p).directories[n])
              /\ \A n \in 1..Len(outcome[p].createdFiles) :
                   IsFile(fsAfter[p], BaseDir \o <<Slash>> \o outcome[p].createdFiles[n])
    /\ (pc[p] # "idle" /\ args[p].inputPath = DotDot) =>
         /\ pc[p] = "failed"
         /\ outcome[p].error.site = "Security violation"

C4_Witness ==
  /\ pc["p1"] = "done"
  /\ args["p1"].inputPath = <<Dot>>
  /\ Len(createdFiles["p1"]) = Len(PatOf("p1").files)
  /\ pc["p2"] = "failed"
  /\ args["p2"].inputPath = DotDot

\* C5: a file that exists before a call at a path the pattern defines under
\* the target keeps its content during and after the call, whether the call
\* succeeds or fails; on success its relative path is in skippedFiles and
\* not in createdFiles.
C5_NoClobber ==
  \A p \in Procs :
    GuardOk(p) =>
      \A n \in 1..Len(PatOf(p).files) :
        LET rel == PatOf(p).files[n].path
            filePath == PathJoin(resolvedTarget[p], rel)
        IN IsFile(fsBefore[p], filePath) =>
             /\ IsFile(fs, filePath)
             /\ fs[filePath] = fsBefore[p][filePath]
             /\ Finished(p) => fsAfter[p][filePath] = fsBefore[p][filePath]
             /\ pc[p] = "done" =>
                  /\ rel \in Elems(outcome[p].skippedFiles)
                  /\ rel \notin Elems(outcome[p].createdFiles)

\* the user's file is kept while the rest of the pattern is written
C5_Witness ==
  \E p \in Procs :
    /\ pc[p] = "done"
    /\ outcome[p].createdFiles # <<>>
    /\ \E n \in 1..Len(PatOf(p).files) :
         LET filePath == PathJoin(resolvedTarget[p], PatOf(p).files[n].path)
         IN /\ IsFile(fsBefore[p], filePath)
            /\ fsBefore[p][filePath].content = CustomContent
            /\ fs[filePath].content = CustomContent

\* C6: two successive calls with identical arguments, the first on an empty
\* root and nothing else touching the disk in between: the second call
\* creates no file, skips as many files as the pattern has, reports the
\* same createdDirs as the first and leaves the disk as the first left it.
C6_Idempotent ==
  ( /\ pc["p1"] = "done"
    /\ pc["p2"] = "done"
    /\ args["p1"] = args["p2"]
    /\ EmptyRoot(fsBefore["p1"], resolvedTarget["p1"])
    /\ fsBefore["p2"] = fsAfter["p1"] ) =>
      /\ outcome["p2"].createdFiles = <<>>
      /\ Len(outcome["p2"].skippedFiles) = Len(PatOf("p2").files)
      /\ outcome["p2"].createdDirs = outcome["p1"].createdDirs
      /\ fsAfter["p2"] = fsAfter["p1"]

C6_Witness ==
  /\ pc["p1"] = "done"
  /\ pc["p2"] = "done"
  /\ args["p1"] = args["p2"]
  /\ EmptyRoot(fsBefore["p1"], resolvedTarget["p1"])
  /\ Len(outcome["p1"].createdFiles) >= 2
  /\ Len(outcome["p2"].skippedFiles) >= 2

\* C7: after a successful call, every path of createdFiles is a path of the
\* pattern and the file at that path under resolvedTarget holds exactly the
\* content of the pattern entry, the empty content of .gitkeep included.
C7_ContentFidelity ==
  \A p \in Procs :
    pc[p] = "done" =>
      \A n \in 1..Len(outcome[p].createdFiles) :
        LET rel == outcome[p].createdFiles[n]
            filePath == PathJoin(outcome[p].resolvedTarget, rel)
        IN /\ \E m \in 1..Len(PatOf(p).files) : PatOf(p).files[m].path = rel
           /\ \A m \in 1..Len(PatOf(p).files) :
                PatOf(p).files[m].path = rel =>
                  /\ fsAfter[p][filePath] = FileNode(PatOf(p).files[m].content)
                  /\ fs[filePath] = FileNode(PatOf(p).files[m].content)

\* one invocation has written a file with text, another an empty .gitkeep
C7_Witness ==
  /\ pc["p1"] = "done"
  /\ pc["p2"] = "done"
  /\ \E n \in 1..Len(PatOf("p1").files) :
       /\ PatOf("p1").files[n].content # ""
       /\ PatOf("p1").files[n].path \in Elems(outcome["p1"].createdFiles)
  /\ \E n \in 1..Len(PatOf("p2").files) :
       /\ PatOf("p2").files[n].content = ""
       /\ PatOf("p2").files[n].path \in Elems(outcome["p2"].createdFiles)

\* C8: on every successful call createdDirs is the pattern's directories
\* list, entry for entry, and createdFiles and skippedFiles are each a
\* subsequence of the pattern's file paths, whatever was on disk before.
C8_ReportingFollowsPattern ==
  \A p \in Procs :
    pc[p] = "done" =>
      /\ outcome[p].createdDirs = PatOf(p).directories
      /\ IsSubseq(outcome[p].createdFiles, FilePaths(PatOf(p)))
      /\ IsSubseq(outcome[p].skippedFiles, FilePaths(PatOf(p)))

\* a successful call on a disk where a pattern directory and one of the
\* pattern's files already exist
C8_Witness ==
  \E p \in Procs :
    /\ pc[p] = "done"
    /\ outcome[p].createdFiles # <<>>
    /\ outcome[p].skippedFiles # <<>>
    /\ \E n \in 1..Len(PatOf(p).directories) :
         IsDir(fsBefore[p], PathJoin(resolvedTarget[p], PatOf(p).directories[n]))

\* C9: a call on an empty root, during which no filesystem call fails for an
\* environmental cause, succeeds: resolvedTarget is that root, createdDirs
\* the pattern's directories, createdFiles all the pattern's file paths,
\* skippedFiles empty, label the pattern's label.
C9_FreshRootCreatesAll ==
  \A p \in Procs :
    ( /\ Finished(p)
      /\ GuardOk(p)
      /\ EmptyRoot(fsBefore[p], resolvedTarget[p])
      /\ NoFault(ops[p]) ) =>
        /\ pc[p] = "done"
        /\ outcome[p].kind = "result"
        /\ outcome[p].resolvedTarget = PathResolve(BaseDir, args[p].inputPath)
        /\ outcome[p].createdDirs = PatOf(p).directories
        /\ outcome[p].createdFiles = FilePaths(PatOf(p))
        /\ outcome[p].skippedFiles = <<>>
        /\ outcome[p].label = PATTERNS[args[p].patternType].label

C9_Witness ==
  /\ pc["p1"] = "done"
  /\ args["p1"].inputPath = <<"app">>
  /\ BaseDir \o <<Slash, "app">> \notin DOMAIN fsBefore["p1"]
  /\ outcome["p1"].resolvedTarget = BaseDir \o <<Slash, "app">>
  /\ outcome["p1"].createdFiles = FilePaths(PatOf("p1"))

\* C10: when a directory or file operation of an invocation fails fatally,
\* the invocation fails at that step with an error and no ScaffoldResult; once
\* failed it issues no further filesystem call and its outcome stays; and
\* the failing step removes or changes nothing that was on disk.
FatalAt(where, code) ==
  /\ code # "ok"
  /\ ~(where \in {"fileDir", "fileWrite"} /\ code = "EEXIST")

C10_FailFastNoRollback ==
  [][\A p \in Procs :
       /\ pc[p] = "failed" =>
            /\ pc'[p] = "failed"
            /\ ops'[p] = ops[p]
            /\ outcome'[p] = outcome[p]
       /\ (Running(p) /\ ops'[p] # ops[p]
             /\ FatalAt(pc[p], ops'[p][Len(ops'[p])].code)) =>
            /\ pc'[p] = "failed"
            /\ outcome'[p].kind = "error"
       /\ (Running(p) /\ pc'[p] = "failed") =>
            /\ FatalAt(pc[p], ops'[p][Len(ops'[p])].code)
            /\ \A q \in DOMAIN fs : q \in DOMAIN fs' /\ fs'[q] = fs[q]
            /\ fsAfter'[p] = fs'
    ]_vars

\* an invocation has failed after it had created a pattern directory and
\* written a file, and both are still on disk
C10_Witness ==
  \E p \in Procs :
    /\ pc[p] = "failed"
    /\ createdDirs[p] # <<>>
    /\ createdFiles[p] # <<>>
    /\ IsDir(fs, PathJoin(resolvedTarget[p], createdDirs[p][1]))
    /\ IsFile(fs, PathJoin(resolvedTarget[p], createdFiles[p][1]))

\* the failure kinds the typed-error design names
TypedFailureKinds == {"SecurityViolation", "DirectoryCreationError", "FileCreationError"}

\* the three messages the code builds
FailureSites == {"Security violation", "Failed to create directory", "Failed to create file"}

\* C11 (as claimed): every failure of scaffoldProject reaches the caller as a
\* value of one of three distinct error types.
C11_TypedFailureKinds ==
  \A p \in Procs :
    pc[p] = "failed" => outcome[p].error.name \in TypedFailureKinds

\* C11 (amended): every failure of scaffoldProject reaches the caller as a
\* plain Error; what tells the three kinds apart is its message only: the
\* guard's message before any filesystem call, the directory message for the
\* root and the directories loop, the file message for the files loop, each
\* naming the path that failed and embedding the cause.
C11_GenericErrorThreeMessages ==
  \A p \in Procs :
    pc[p] = "failed" =>
      LET e == outcome[p].error
          nDirCalls == Len(PatOf(p).directories) + 1
      IN /\ outcome[p].kind = "error"
         /\ e.name = "Error"
         /\ e.site \in FailureSites
         /\ (e.site = "Security violation") <=> (ops[p] = <<>>)
         /\ e.site = "Security violation" =>
              e.path = args[p].inputPath /\ e.cause = NoCause
         /\ (e.site = "Failed to create directory") <=>
              (ops[p] # <<>> /\ Len(ops[p]) <= nDirCalls)
         /\ e.site = "Failed to create directory" =>
              /\ e.path = ops[p][Len(ops[p])].path
              /\ e.cause = ops[p][Len(ops[p])].code
         /\ e.site = "Failed to create file" =>
              /\ \E n \in 1..Len(PatOf(p).files) :
                   e.path = PathJoin(resolvedTarget[p], PatOf(p).files[n].path)
              /\ e.cause = ops[p][Len(ops[p])].code

\* the three kinds of failure side by side are told apart by site alone:
\* here a file failure after a completed directories loop
C11_Witness ==
  /\ pc["p1"] = "failed"
  /\ outcome["p1"].error.site = "Failed to create file"
  /\ outcome["p1"].error.name = "Error"
  /\ pc["p2"] = "failed"
  /\ outcome["p2"].error.site = "Failed to create directory"
  /\ outcome["p2"].error.name = "Error"

\* C12 (as claimed): ensureFile answers "already existed" only for a file at
\* exactly the requested path, so every path in skippedFiles names a file
\* that exists on disk.
C12_SkippedNamesExistingFile ==
  \A p \in Procs :
    \A n \in 1..Len(skippedFiles[p]) :
      IsFile(fs, PathJoin(resolvedTarget[p], skippedFiles[p][n]))

\* C15 (as claimed): createdDirs lists only directories this invocation
\* created; a directory that existed before the call is not in it.
C15_CreatedDirsOnlyNew ==
  \A p \in Procs :
    pc[p] = "done" =>
      \A n \in 1..Len(outcome[p].createdDirs) :
        ~IsDir(fsBefore[p], PathJoin(resolvedTarget[p], outcome[p].createdDirs[n]))

\* C15 (amended): createdDirs lists the relative paths of the directories
\* this invocation has ensured so far, in pattern order, whether they were
\* created by it or existed before the call; each of them is a directory on
\* disk, and a pattern directory that existed before the call is reported
\* like any other.
C15_CreatedDirsAreEnsuredDirs ==
  \A p \in Procs :
    pc[p] # "idle" /\ GuardOk(p) =>
      LET dirs == PatOf(p).directories IN
      /\ Len(createdDirs[p]) <= Len(dirs)
      /\ createdDirs[p] = SubSeq(dirs, 1, Len(createdDirs[p]))
      /\ \A n \in 1..Len(createdDirs[p]) :
           IsDir(fs, PathJoin(resolvedTarget[p], createdDirs[p][n]))
      /\ pc[p] = "done" =>
           \A n \in 1..Len(dirs) :
             IsDir(fsBefore[p], PathJoin(resolvedTarget[p], dirs[n]))
               => \E m \in 1..Len(outcome[p].createdDirs) :
                    outcome[p].createdDirs[m] = dirs[n]

\* a successful call that reports a directory that was there before it began
C15_Witness ==
  \E p \in Procs :
    /\ pc[p] = "done"
    /\ \E n \in 1..Len(outcome[p].createdDirs) :
         IsDir(fsBefore[p], PathJoin(resolvedTarget[p], outcome[p].createdDirs[n]))

\* the text of the response the handler returned
ResponseText == hResp.content[1].text

\* the request is one ScaffoldInputSchema rejects
InvalidArguments(request) ==
  LET a == OrEmptyObject(request.arguments) IN
  \/ a.path.type # "string"
  \/ a.path.value = <<>>
  \/ a.pattern_type.type # "string"
  \/ a.pattern_type.value \notin {"layered", "feature", "atomic", "clean"}

\* C16: the handler always returns a response.  For an unknown tool, for
\* arguments the schema rejects and for a scaffoldProject that threw, the
\* response has isError true and its text carries the message of the error
\* (for a security violation: the message naming the input path); a response
\* without isError is returned only for describe_architectures and for a
\* scaffoldProject that ran to its end and returned its result.
C16_HandlerTurnsEveryFailureIntoErrorResponse ==
  hPc = "responded" =>
    LET isError == "isError" \in DOMAIN hResp
        unknown == hReq.name \notin {"describe_architectures", "scaffold_react_project"}
        scaffold == hReq.name = "scaffold_react_project"
    IN /\ Len(hResp.content) = 1
       /\ unknown =>
            /\ isError /\ hResp.isError
            /\ ResponseText.message.site = "Unknown tool"
            /\ ResponseText.message.tool = hReq.name
       /\ (scaffold /\ InvalidArguments(hReq)) =>
            /\ isError /\ hResp.isError
            /\ ResponseText.message.name = "ZodError"
            /\ ResponseText.message.issues # {}
       /\ (scaffold /\ pc["p1"] = "failed") =>
            /\ isError /\ hResp.isError
            /\ ResponseText.message = outcome["p1"].error
            /\ ResponseText.message.site \in FailureSites
            /\ ResponseText.message.site = "Security violation" =>
                 ResponseText.message.path = hReq.arguments.path.value
       /\ ~isError =>
            \/ hReq.name = "describe_architectures"
            \/ /\ scaffold
               /\ ~InvalidArguments(hReq)
               /\ pc["p1"] = "done"
               /\ outcome["p1"].kind = "result"
               /\ ResponseText.label = PatOf("p1").label
               /\ ResponseText.target = resolvedTarget["p1"]
               /\ ResponseText.createdDirs = Len(PatOf("p1").directories)
               /\ ResponseText.createdFiles + Len(outcome["p1"].skippedFiles)
                    = Len(PatOf("p1").files)
               /\ \A n \in 1..Len(PatOf("p1").directories) :
                    IsDir(fs, PathJoin(resolvedTarget["p1"], PatOf("p1").directories[n]))

\* the handler has answered a request to scaffold '..' with the security
\* violation naming '..'
C16_Witness ==
  /\ hPc = "responded"
  /\ hReq.name = "scaffold_react_project"
  /\ pc["p1"] = "failed"
  /\ hResp.isError
  /\ ResponseText.message.site = "Security violation"
  /\ ResponseText.message.path = DotDot

\* C17: a scaffold_react_project request whose path is missing, not a string
\* or empty, or whose pattern_type is not one of the four catalog keys, is
\* answered without scaffoldProject being called and without any change of
\* the filesystem; scaffoldProject is only ever called with a catalog key
\* and a non-empty path.
C17_ValidatedBeforeAnyEffect ==
  /\ [](pc["p1"] # "idle" =>
          /\ args["p1"].patternType \in DOMAIN PATTERNS
          /\ args["p1"].inputPath # <<>>)
  /\ [][ (hReq'.name = "scaffold_react_project" /\ InvalidArguments(hReq')) =>
           /\ fs' = fs
           /\ pc'["p1"] = "idle"
           /\ ops'["p1"] = <<>>
           /\ hPc' = "responded"
           /\ "isError" \in DOMAIN hResp' ]_vars

\* a request with an empty path and a request with an unknown pattern_type
\* cannot be told apart here, so the witness takes the one with both
C17_Witness ==
  /\ hPc = "responded"
  /\ hReq.name = "scaffold_react_project"
  /\ hReq.arguments.present
  /\ hReq.arguments.path = JsonString(<<>>)
  /\ hReq.arguments.pattern_type = JsonString("mvc")
  /\ pc["p1"] = "idle"
  /\ hResp.isError

\* the invocation of the whole-entry specification has returned its result
\* for pattern k (the root was fresh: the disk held the base directory only)
DoneWith(k) ==
  /\ pc["p1"] = "done"
  /\ args["p1"].patternType = k
  /\ fsBefore["p1"] = InitFs

\* C18 (as claimed): after a successful scaffold of 'layered' into a fresh
\* root there is a file index.html directly at the resolved target root, with
\* the HTML doctype and the element of id 'root'.
C18_LayeredIndexHtmlAtRoot ==
  DoneWith("layered") =>
    LET indexHtml == PathJoin(resolvedTarget["p1"], <<"index", Dot, "html">>) IN
    /\ IsFile(fs, indexHtml)
    /\ HasDoctype(fs[indexHtml].content)
    /\ HasRootElement(fs[indexHtml].content)

\* C19 (as claimed): after a successful scaffold of 'clean' into a fresh root
\* the directories src/domain, src/data and src/presentation exist under the
\* resolved target.
C19_CleanHasDomainDataPresentation ==
  DoneWith("clean") =>
    \A layer \in {"domain", "data", "presentation"} :
      IsDir(fs, PathJoin(resolvedTarget["p1"], <<"src", Slash, layer>>))

\* C20 (as claimed): after a successful scaffold of 'clean' into a fresh root
\* the tsconfig.json at the target root declares the path aliases
\* '@domain/*', '@data/*' and '@presentation/*' under compilerOptions.paths.
C20_CleanTsconfigHasLayerAliases ==
  DoneWith("clean") =>
    LET tsconfig == PathJoin(resolvedTarget["p1"], <<"tsconfig", Dot, "json">>) IN
    /\ IsFile(fs, tsconfig)
    /\ {"@domain/*", "@data/*", "@presentation/*"}
         \subseteq CompilerOptionsPaths(fs[tsconfig].content)

\* the part of disk f at and below root
Subtree(f, root) ==
  {[path |-> q, node |-> f[q]] : q \in {x \in DOMAIN f : Within(x, root)}}

Other(p) == CHOOSE q \in Procs : q # p

\* the file paths both invocations' patterns define
SharedFiles(p, q) == Elems(FilePaths(PatOf(p))) \cap Elems(FilePaths(PatOf(q)))

SameRoot(p, q) ==
  GuardOk(p) /\ GuardOk(q) /\ resolvedTarget[p] = resolvedTarget[q]

\* C13: of two invocations on the same root, whatever the order in which
\* their filesystem calls complete, a file both patterns define and that was
\* not there before either began is reported created by at most one of them;
\* the one that finds it there lists it as skipped and goes on (it never
\* fails for EEXIST); when both have returned, exactly one reports it created
\* and the other reports it skipped.
C13_OneCreatorPerSharedFile ==
  \A p \in Procs :
    LET q == Other(p) IN
    SameRoot(p, q) =>
      /\ \A f \in SharedFiles(p, q) :
           PathJoin(resolvedTarget[p], f) \notin DOMAIN fsBefore["p1"] =>
             /\ ~(f \in Elems(createdFiles[p]) /\ f \in Elems(createdFiles[q]))
             /\ (pc[p] = "done" /\ pc[q] = "done") =>
                  \/ f \in Elems(createdFiles[p]) /\ f \in Elems(skippedFiles[q])
                  \/ f \in Elems(createdFiles[q]) /\ f \in Elems(skippedFiles[p])
      /\ pc[p] = "failed" => outcome[p].error.cause # "EEXIST"

\* both invocations ran on the same root and each of them won one of the
\* files they share, which only an interleaving of their calls produces
C13_Witness ==
  /\ SameRoot("p1", "p2")
  /\ pc["p1"] = "done" /\ pc["p2"] = "done"
  /\ \E f, g \in SharedFiles("p1", "p2") :
       /\ f \in Elems(createdFiles["p1"]) /\ f \in Elems(skippedFiles["p2"])
       /\ g \in Elems(createdFiles["p2"]) /\ g \in Elems(skippedFiles["p1"])

DifferentRoots(p, q) ==
  GuardOk(p) /\ GuardOk(q) /\ resolvedTarget[p] # resolvedTarget[q]

\* neither root is the other or lies inside it
DisjointRoots(p, q) ==
  /\ GuardOk(p) /\ GuardOk(q)
  /\ ~Within(resolvedTarget[p], resolvedTarget[q])
  /\ ~Within(resolvedTarget[q], resolvedTarget[p])

\* invocation p returned what it returns when run alone on the disk it was
\* first called on, and left below its root what it leaves when run alone
AsIfAlone(p) ==
  LET alone == RunAlone(InitFs, args[p].inputPath, args[p].patternType) IN
  /\ outcome[p] = alone.outcome
  /\ Subtree(fsAfter[p], resolvedTarget[p]) = Subtree(alone.fs, resolvedTarget[p])

\* C14 (as claimed): invocations whose roots differ are independent, also
\* when one root is a directory inside the other.
C14_DifferentRootsIndependent ==
  \A p \in Procs :
    (Finished(p) /\ NoFault(ops[p]) /\ DifferentRoots(p, Other(p))) => AsIfAlone(p)

\* C14 (amended): invocations whose roots are disjoint (neither is inside the
\* other) are independent: under every interleaving each returns the result
\* and leaves the tree under its own root that it would if run alone.
C14_DisjointRootsIndependent ==
  \A p \in Procs :
    (Finished(p) /\ NoFault(ops[p]) /\ DisjointRoots(p, Other(p))) => AsIfAlone(p)

\* two invocations on disjoint roots have both returned, each called before
\* the other returned: neither saw the other's last file when it began
C14_Witness ==
  /\ DisjointRoots("p1", "p2")
  /\ pc["p1"] = "done" /\ pc["p2"] = "done"
  /\ \E p \in Procs :
       LET q == Other(p)
           lastOf(r) == PathJoin(resolvedTarget[r],
                                 createdFiles[r][Len(createdFiles[r])])
       IN /\ createdFiles[p] # <<>> /\ createdFiles[q] # <<>>
          /\ lastOf(p) \notin DOMAIN fsBefore[q]
          /\ lastOf(q) \notin DOMAIN fsBefore[p]

\* C21: after every successful call the resolved root is a directory, and so
\* is every entry of the pattern's directories list and every ancestor of it
\* below the root.
C21_RootAndDirectoriesExist ==
  \A p \in Procs :
    pc[p] = "done" =>
      /\ IsDir(fs, resolvedTarget[p])
      /\ \A n \in 1..Len(PatOf(p).directories) :
           LET dirPath == PathJoin(resolvedTarget[p], PatOf(p).directories[n]) IN
           /\ IsDir(fs, dirPath)
           /\ \A a \in Ancestors(dirPath) : IsDir(fs, a)

\* a successful call that had to create a directory two levels below its
\* root, on a disk where another entry of the pattern was already there
C21_Witness ==
  \E p \in Procs :
    /\ pc[p] = "done"
    /\ \E n, m \in 1..Len(PatOf(p).directories) :
         LET new == PathJoin(resolvedTarget[p], PatOf(p).directories[n])
             old == PathJoin(resolvedTarget[p], PatOf(p).directories[m])
         IN /\ Len(Segments(new)) >= Len(Segments(resolvedTarget[p])) + 2
            /\ new \notin DOMAIN fsBefore[p]
            /\ PathDirname(new) \notin DOMAIN fsBefore[p]
            /\ IsDir(fsBefore[p], old)
            /\ IsDir(fs, new)

\* the files every pattern is to put directly at the root
RootFiles ==
  { <<"package", Dot, "json">>, <<"tsconfig", Dot, "json">>,
    <<"vite", Dot, "config", Dot, "ts">>, <<Dot, "gitignore">>,
    <<"README", Dot, "md">> }

\* C22: for each of the four patterns, a successful scaffold into a fresh
\* root creates package.json, tsconfig.json, vite.config.ts, .gitignore and
\* README.md directly at the resolved root and reports each in createdFiles.
C22_RootFilesCreated ==
  \A k \in PatternTypes :
    DoneWith(k) =>
      \A f \in RootFiles :
        /\ IsFile(fs, PathJoin(resolvedTarget["p1"], f))
        /\ PathDirname(PathJoin(resolvedTarget["p1"], f)) = resolvedTarget["p1"]
        /\ f \in Elems(outcome["p1"].createdFiles)
        /\ \E n \in 1..Len(PATTERNS[k].files) :
             /\ PATTERNS[k].files[n].path = f
             /\ fs[PathJoin(resolvedTarget["p1"], f)].content
                  = PATTERNS[k].files[n].content

\* the clean pattern, the last of the four, scaffolded into 'app'
C22_Witness ==
  /\ DoneWith("clean")
  /\ resolvedTarget["p1"] = PathJoin(BaseDir, <<"app">>)
  /\ Len(outcome["p1"].createdFiles) = Len(PATTERNS["clean"].files)

\* the files the guides list as production features of every pattern
ProductionFiles ==
  { <<"tests", Slash, "setup", Dot, "ts">>,
    <<Dot, "github", Slash, "workflows", Slash, "ci", Dot, "yml">>,
    <<"Dockerfile">>, <<"nginx", Dot, "conf">>, <<Dot, "env", Dot, "example">>,
    <<"src", Slash, "services", Slash, "api", Dot, "ts">> }

\* C23 (as claimed): whichever of the four patterns is chosen, the scaffolded
\* project has the tests/ tree with tests/setup.ts, .github/workflows/ci.yml,
\* Dockerfile, nginx.conf, .env.example and src/services/api.ts.
C23_ProductionFilesInEveryPattern ==
  \A k \in PatternTypes :
    DoneWith(k) =>
      /\ IsDir(fs, PathJoin(resolvedTarget["p1"], <<"tests">>))
      /\ \A f \in ProductionFiles : IsFile(fs, PathJoin(resolvedTarget["p1"], f))

\* the request of the README's fourth usage example
ParentDirectoryInput == <<Dot, Dot, Slash, "my-project">>

AsksForParentDirectory ==
  /\ hReq.name = "scaffold_react_project"
  /\ hReq.arguments.present
  /\ hReq.arguments.path = JsonString(ParentDirectoryInput)
  /\ ~InvalidArguments(hReq)

IsConfinedEntry(path) ==
  /\ path # <<>>
  /\ ~PathIsAbsolute(path)
  /\ \A n \in 1..Len(Split(path)) : Split(path)[n] # DotDot

OrderedCalls(p) ==
  LET dirs == PatOf(p).directories
      nd == Len(dirs)
      log == ops[p]
  IN \A n \in 1..Len(log) :
       /\ n = 1 => log[n].op = "mkdir" /\ log[n].path = resolvedTarget[p]
       /\ (1 < n /\ n <= nd + 1) =>
            /\ log[n].op = "mkdir"
            /\ log[n].path = PathJoin(resolvedTarget[p], dirs[n - 1])
       /\ n > nd + 1 =>
            \E m \in 1..Len(PatOf(p).files) :
              LET filePath == PathJoin(resolvedTarget[p], PatOf(p).files[m].path) IN
              \/ log[n].op = "mkdir" /\ log[n].path = PathDirname(filePath)
              \/ log[n].op = "writeFile" /\ log[n].path = filePath
       /\ n < Len(log) =>
            \/ log[n].code = "ok"
            \/ n > nd + 1 /\ log[n].code = "EEXIST"

\* the one call invocation p is waiting for follows from the calls it has
\* completed: it has no other in flight
OneCallInFlight(p) ==
  LET nd == Len(PatOf(p).directories) IN
  /\ pc[p] = "root" => ops[p] = <<>>
  /\ pc[p] = "dir" => Len(ops[p]) = idx[p]
  /\ pc[p] \in {"fileDir", "fileWrite", "fileData"} =>
       /\ Len(ops[p]) >= nd + 1
       /\ Len(ops[p]) >= nd + idx[p]
  /\ pc[p] \in {"fileWrite", "fileData"} =>
       /\ ops[p][Len(ops[p])].op = "mkdir"
       /\ ops[p][Len(ops[p])].code = "ok"

\* C26: within one invocation, whatever other invocation runs in between:
\* the path guard is checked before any filesystem call, the root is ensured
\* before any pattern directory, every pattern directory before the first
\* call of the files loop, and a call begins only when the one before it has
\* completed: each step completes exactly one call of one invocation.
C26_OrderingWithinInvocation ==
  /\ [](\A p \in Procs :
          /\ ops[p] # <<>> => GuardOk(p)
          /\ pc[p] # "idle" /\ ~GuardOk(p) => pc[p] = "failed" /\ ops[p] = <<>>
          /\ GuardOk(p) => OrderedCalls(p) /\ OneCallInFlight(p))
  /\ [][\A p \in Procs :
          \/ ops'[p] = ops[p]
          \/ /\ Running(p)
             /\ Len(ops'[p]) = Len(ops[p]) + 1
             /\ SubSeq(ops'[p], 1, Len(ops[p])) = ops[p]
             /\ \A q \in Procs \ {p} : ops'[q] = ops[q]]_vars

\* two invocations overlap and one of them has gone through root,
\* directories and both calls of a file while the other was suspended
C26_Witness ==
  \E p \in Procs :
    /\ Running(p) /\ Running(Other(p))
    /\ ops[Other(p)] # <<>>
    /\ Len(ops[p]) >= Len(PatOf(p).directories) + 3
    /\ ops[p][Len(ops[p])].op = "writeFile"

\* nothing lay at or below the root of invocation p when it was called
RootWasEmpty(p) ==
  \A q \in DOMAIN fsBefore[p] : ~Within(q, resolvedTarget[p])

\* C27 (as claimed): when a call on an initially empty root has aborted with
\* a fatal error and a later call with the same arguments has succeeded,
\* every file of the pattern exists under the root with exactly the
\* pattern's content.
C27_ReinvocationRecovers ==
  ( /\ pc["p1"] = "failed" /\ GuardOk("p1") /\ RootWasEmpty("p1")
    /\ pc["p2"] = "done" /\ args["p2"] = args["p1"] ) =>
    \A n \in 1..Len(PatOf("p2").files) :
      LET file == PatOf("p2").files[n]
          filePath == PathJoin(resolvedTarget["p2"], file.path)
      IN IsFile(fs, filePath) /\ fs[filePath].content = file.content

\* how many entries of seq equal x
Occurrences(seq, x) == Cardinality({n \in 1..Len(seq) : seq[n] = x})

\* C28: no catalog pattern lists a file path twice, and on every successful
\* call createdFiles and skippedFiles are disjoint and together hold every
\* file path of the pattern exactly once, so their lengths add up to the
\* number of files of the pattern.
C28_CreatedAndSkippedPartitionFiles ==
  /\ \A k \in PatternTypes :
       Cardinality(Elems(FilePaths(PATTERNS[k]))) = Len(PATTERNS[k].files)
  /\ \A p \in Procs :
       pc[p] = "done" =>
         LET created == outcome[p].createdFiles
             skipped == outcome[p].skippedFiles
             both == created \o skipped
         IN /\ Elems(created) \cap Elems(skipped) = {}
            /\ Elems(both) = Elems(FilePaths(PatOf(p)))
            /\ \A f \in Elems(FilePaths(PatOf(p))) : Occurrences(both, f) = 1
            /\ Len(created) + Len(skipped) = Len(PatOf(p).files)

\* a successful call that wrote one file of the pattern and found another
C28_Witness ==
  \E p \in Procs :
    /\ pc[p] = "done"
    /\ Len(outcome[p].createdFiles) >= 1
    /\ Len(outcome[p].skippedFiles) >= 1
    /\ Len(outcome[p].createdFiles) + Len(outcome[p].skippedFiles)
         = Len(PatOf(p).files)

\* the content pattern pat gives the file of relative path f
ContentIn(pat, f) ==
  (CHOOSE file \in Elems(pat.files) : file.path = f).content

OccupiedDirectoryPaths(p) ==
  {q \in {resolvedTarget[p]} \cup
         {PathJoin(resolvedTarget[p], PatOf(p).directories[n]) :
            n \in 1..Len(PatOf(p).directories)} : IsFile(fsBefore[p], q)}

\* the disk as invocation p has left it so far
DiskOf(p) == IF Finished(p) THEN fsAfter[p] ELSE fs

\* C30: when the resolved root or a path of the directories list is occupied
\* by a regular file, the call does not succeed; barring an environmental
\* failure before it gets there, it fails with the directory-creation error
\* that names the path and carries the cause; the occupying file is as it
\* was and no file of the pattern has been written.
C30_OccupiedDirectoryPathIsFatal ==
  \A p \in Procs :
    (GuardOk(p) /\ OccupiedDirectoryPaths(p) # {}) =>
      /\ pc[p] # "done"
      /\ createdFiles[p] = <<>> /\ skippedFiles[p] = <<>>
      /\ \A q \in DOMAIN DiskOf(p) : IsFile(DiskOf(p), q) => IsFile(fsBefore[p], q)
      /\ \A q \in OccupiedDirectoryPaths(p) :
           IsFile(DiskOf(p), q) /\ DiskOf(p)[q] = fsBefore[p][q]
      /\ pc[p] = "failed" =>
           /\ outcome[p].error.site = "Failed to create directory"
           /\ outcome[p].error.cause \in {"EEXIST", "ENOTDIR"} \cup FaultCodes
           /\ NoFault(ops[p]) =>
                /\ outcome[p].error.cause = "EEXIST"
                /\ outcome[p].error.path \in OccupiedDirectoryPaths(p)
                /\ outcome[p].error.path = ops[p][Len(ops[p])].path

\* a call has got past its root and failed at a pattern directory whose path
\* holds a file of the user's
C30_Witness ==
  \E p \in Procs :
    /\ pc[p] = "failed"
    /\ NoFault(ops[p])
    /\ Len(ops[p]) >= 2
    /\ outcome[p].error.cause = "EEXIST"
    /\ outcome[p].error.path \in OccupiedDirectoryPaths(p)
    /\ fsAfter[p][outcome[p].error.path].content = CustomContent

====
